---- MODULE Spec2Model ----
(***************************************************************************)
(* GNSS / IMU synchronisation platform: frame decoding, combined-stream    *)
(* scan, fused-result scan, calendar-to-timestamp conversion and IMU       *)
(* timestamp synthesis, as state machines over byte buffers.               *)
(*                                                                         *)
(* Conventions.  A Python bytes object is a sequence of naturals 0..255;   *)
(* Python index i is TLA+ index i+1, and the slice data[a:b] is            *)
(* Slice(data, a, b).  A float field is kept as the little-endian IEEE-754 *)
(* byte pattern that struct.unpack reads.  A Python call yields a record   *)
(* with a field `kind`: "None", "raise" (with the exception class in       *)
(* `exc`), or the class name of the object returned.                       *)
(***************************************************************************)
EXTENDS Integers, Sequences, FiniteSets, TLC

VARIABLES
    \* --- a single frame handed to a frame decoder
    frame_kind,     \* "gnss" | "ins" | "idle": which decoder is applied
    data,           \* the bytes handed to the decoder
    encoded,        \* the field values the window was built from
    edit,           \* how the well-formed window was altered before decoding
    decoded,        \* "pending" marker, or the outcome of the decoder call
    \* --- HexFrameParser.parse_file: the combined-stream scan
    binary_data,    \* the buffer being scanned
    offset,         \* the cursor
    gnss_list,      \* Position records emitted so far
    imu_list,       \* Inertial records emitted so far
    scan_pc,        \* "idle" | "loop" | "returned" | "raised"
    garbage_len,    \* number of bytes put before the first composite window
    layout,         \* the kinds of the composite windows the buffer was built from
    cursors,        \* the cursor positions at which decodes were attempted
    \* --- calendar-to-timestamp conversion of one Position record
    rec,            \* the record (timestamp and calendar fields)
    rec0,           \* the record as it was before the call
    conv_out,       \* "pending" marker, or the outcome of the conversion call
    \* --- ResultParser.parse_file: the FusedResult stream scan
    res_data,       \* the buffer being scanned (binary_data)
    res_offset,     \* the cursor (offset)
    results,        \* the records emitted so far
    res_pc,         \* "idle" | "loop" | "returned"
    res_layout,     \* the field values the frames of the buffer were built from
    \* --- time_sync.py: TimestampConverter.convert_imu_data
    conv_list,      \* imu_list: the Inertial records, updated in place
    imu_input,      \* imu_list as it was when the call was made
    start_timestamp,\* the reference epoch
    frequency,      \* the sampling frequency in Hz
    conv_i,         \* the number of records the loop has gone through
    conv_pc,        \* "idle" | "enter" | "loop" | "returned" | "raised"
    \* --- time_sync.py: TimeAlignment.align_data, then validate_alignment
    align_gnss,     \* gnss_list: the reference records
    align_imu,      \* imu_list: the query records
    aligned_pairs,  \* the triples (gnss, imu, time_diff) emitted so far
    align_report,   \* "pending" marker, or the outcome of validate_alignment
    align_pc,       \* "idle" | "loop" | "aligned" | "validated" | "raised"
    \* --- gnss_interpolation.py: one call of an interpolator's interpolate
    interp_method,  \* "linear" | "spline" | "idle"
    interp_gnss,    \* gnss_list as the caller passed it
    target_timestamps, \* the target timestamps
    clean_gnss,     \* the outcome of _sort_and_deduplicate
    interp_results, \* per channel, the interpolated values at the targets
    interp_out,     \* "pending" marker, or the outcome of the call
    interp_log,     \* the messages handed to the logger, in order
    interp_pc,      \* "idle" | "dedup" | "validate" | "fields" | "build" | "returned" | "raised"
    \* --- ins_parser.py: INSFrameParser.parse_file
    ins_kinds,      \* the kinds of the lines the file was built from
    ins_lines,      \* the lines of the file, each a sequence of characters
    ins_done,       \* the number of lines the loop has gone through
    ins_imu_list,   \* imu_list: the records collected so far
    ins_out,        \* "pending" marker, or the outcome of the call
    ins_pc,         \* "idle" | "loop" | "returned" | "raised"
    \* --- data_pipeline.py: one DataPipeline(config).run()
    pipe_config,    \* the PipelineConfig
    pipe_self,      \* the attributes of the DataPipeline object
    pipe_stages,    \* the stages run() has called, in order
    pipe_calls,     \* the calls made into the converter, the resamplers and the aligner
    pipe_report,    \* alignment_report: what _align_and_evaluate returned
    pipe_out,       \* "pending" marker, or the outcome of the run
    pipe_pc,        \* "idle" | "new" | a stage | "returned" | "raised"
    \* --- web/api.py: the job store, served by one event loop
    jobs,           \* jobs: job id -> job record
    tasks,          \* the tasks made by asyncio.create_task, in order
    uploads,        \* the upload requests that are between two of their awaits
    clock,          \* the number of job ids taken from datetime.now() so far
    web_response,   \* the answer of the handler that finished last
    web_pc          \* "idle" | "serving"

decode_vars == <<frame_kind, data, encoded, edit, decoded>>

scan_vars == <<binary_data, offset, gnss_list, imu_list, scan_pc, garbage_len, layout, cursors>>

time_vars == <<rec, rec0, conv_out>>

result_vars == <<res_data, res_offset, results, res_pc, res_layout>>

conv_vars == <<conv_list, imu_input, start_timestamp, frequency, conv_i, conv_pc>>

align_vars == <<align_gnss, align_imu, aligned_pairs, align_report, align_pc>>

interp_vars == <<interp_method, interp_gnss, target_timestamps, clean_gnss,
                 interp_results, interp_out, interp_log, interp_pc>>

insfile_vars == <<ins_kinds, ins_lines, ins_done, ins_imu_list, ins_out, ins_pc>>

pipe_vars == <<pipe_config, pipe_self, pipe_stages, pipe_calls, pipe_report, pipe_out, pipe_pc>>

web_vars == <<jobs, tasks, uploads, clock, web_response, web_pc>>

vars == <<decode_vars, scan_vars, time_vars, result_vars, conv_vars, align_vars,
          interp_vars,
          insfile_vars,
          pipe_vars,
          web_vars>>

-----------------------------------------------------------------------------
(* Python values and byte helpers *)

None == [kind |-> "None"]

Raise(exc) == [kind |-> "raise", exc |-> exc]

Pending == [kind |-> "pending"]

Byte == 0..255

Min(a, b) == IF a < b THEN a ELSE b

\* data[i]
At(d, i) == d[i + 1]

\* data[a:b] (Python clamps the end of a slice to the length)
Slice(d, a, b) == SubSeq(d, a + 1, Min(b, Len(d)))

RECURSIVE SumBytes(_)
SumBytes(s) == IF s = <<>> THEN 0 ELSE Head(s) + SumBytes(Tail(s))

\* struct.unpack('<H', s)
U16LE(s) == s[1] + 256 * s[2]

\* struct.unpack('<I', s)
U32LE(s) == s[1] + 256 * s[2] + 65536 * s[3] + 16777216 * s[4]

\* struct.unpack('b', s): one signed byte
I8(s) == IF s[1] < 128 THEN s[1] ELSE s[1] - 256

\* struct.unpack('<i', s)
I32LE(s) ==
    LET u == s[1] + 256 * s[2] + 65536 * s[3] + 16777216 * (s[4] % 128)
    IN  IF s[4] >= 128 THEN u - 2147483647 - 1 ELSE u

\* struct.pack of the integer fields (used to build input windows)
PackU16(n) == <<n % 256, (n \div 256) % 256>>

PackU32(n) == <<n % 256, (n \div 256) % 256, (n \div 65536) % 256, (n \div 16777216) % 256>>

-----------------------------------------------------------------------------
(* models/data_types.py: the record classes *)

GNSSData_required ==
    {"timestamp", "year", "month", "day", "hour", "minute", "microsecond",
     "longitude", "latitude", "altitude", "velocity_x", "velocity_y", "velocity_z"}

\* The dataclass-generated GNSSData.__init__ called with keyword arguments kw:
\* every field without a default must be supplied, `valid` defaults to True.
GNSSData(kw) ==
    IF GNSSData_required \subseteq DOMAIN kw
    THEN [kind |-> "GNSSData"] @@ kw @@ [valid |-> TRUE]
    ELSE Raise("TypeError")

IMUData_required ==
    {"timestamp", "year", "month", "day", "hour", "minute", "microsecond",
     "gyro_x", "gyro_y", "gyro_z", "accel_x", "accel_y", "accel_z"}

\* The dataclass-generated IMUData.__init__ called with keyword arguments kw.
IMUData(kw) ==
    IF IMUData_required \subseteq DOMAIN kw
    THEN [kind |-> "IMUData"] @@ kw
    ELSE Raise("TypeError")

-----------------------------------------------------------------------------
(* parsers/hex_parser.py: HexFrameParser *)

GNSS_HEADER == <<153, 102>>

INS_HEADER == <<85, 170>>

GNSS_LENGTH == 46

INS_LENGTH == 52

checksum(d) == SumBytes(d) % 256

\* The span parse_gnss_frame sums: data[3:45]
GnssChecksumSpan_short(d) == Slice(d, 3, 44)

GnssChecksumSpan(d) == Slice(d, 3, 45)

\* The year rejected by parse_gnss_frame: year < 2000 or year > 2100
YearIllegal_noupper(year) == year < 2000

YearIllegal(year) == year < 2000 \/ year > 2100

parse_gnss_frame(d) ==
    IF Len(d) < 46 THEN None
    ELSE IF Slice(d, 0, 2) # GNSS_HEADER THEN None
    ELSE IF At(d, 2) # GNSS_LENGTH THEN None
    ELSE IF checksum(GnssChecksumSpan(d)) # At(d, 45) THEN None
    ELSE LET year == U16LE(Slice(d, 3, 5))
             month == At(d, 5)
             day == At(d, 6)
             hour == At(d, 7)
             minute == At(d, 8)
             microsecond == U32LE(Slice(d, 9, 13))
         IN  IF YearIllegal(year) THEN None
             ELSE GNSSData([year |-> year, month |-> month, day |-> day,
                            hour |-> hour, minute |-> minute,
                            microsecond |-> microsecond,
                            longitude |-> Slice(d, 13, 21),
                            latitude |-> Slice(d, 21, 29),
                            altitude |-> Slice(d, 29, 33),
                            velocity_x |-> Slice(d, 33, 37),
                            velocity_y |-> Slice(d, 37, 41),
                            velocity_z |-> Slice(d, 41, 45)])

-----------------------------------------------------------------------------
(* parsers/ins_parser.py: INSFrameParser *)

\* The span INSFrameParser.parse_ins_frame sums: data[3:51]
InsChecksumSpan(d) == Slice(d, 3, 51)

INSFrameParser_parse_ins_frame(d) ==
    IF Len(d) < 52 THEN None
    ELSE IF Slice(d, 0, 2) # INS_HEADER THEN None
    ELSE IF At(d, 2) # INS_LENGTH THEN None
    ELSE IF checksum(InsChecksumSpan(d)) # At(d, 51) THEN None
    ELSE IMUData([year |-> 1970, month |-> 1, day |-> 1, hour |-> 0,
                  minute |-> 0, microsecond |-> 0,
                  gyro_x |-> Slice(d, 3, 11),
                  gyro_y |-> Slice(d, 11, 19),
                  gyro_z |-> Slice(d, 19, 27),
                  accel_x |-> Slice(d, 27, 35),
                  accel_y |-> Slice(d, 35, 43),
                  accel_z |-> Slice(d, 43, 51)])

-----------------------------------------------------------------------------
(* Input windows for the frame decoders *)

\* IEEE-754 little-endian patterns: 121.5, 31.2, 0.0, 1.0, -0.5 (f64)
F64_121_5 == <<0, 0, 0, 0, 0, 96, 94, 64>>
F64_31_2 == <<51, 51, 51, 51, 51, 51, 63, 64>>
F64_0 == <<0, 0, 0, 0, 0, 0, 0, 0>>
F64_1 == <<0, 0, 0, 0, 0, 0, 240, 63>>
F64_m0_5 == <<0, 0, 0, 0, 0, 0, 224, 191>>
\* 10.0, 1.0, 0.0, -2.5 (f32)
F32_10 == <<0, 0, 32, 65>>
F32_1 == <<0, 0, 128, 63>>
F32_0 == <<0, 0, 0, 0>>
F32_m2_5 == <<0, 0, 32, 192>>

GnssCalendars ==
    { [month |-> 6, day |-> 1, hour |-> 12, minute |-> 0, microsecond |-> 0],
      [month |-> 2, day |-> 29, hour |-> 23, minute |-> 59, microsecond |-> 59999999] }

GnssPayloads ==
    { [longitude |-> F64_121_5, latitude |-> F64_31_2, altitude |-> F32_10,
       velocity_x |-> F32_1, velocity_y |-> F32_0, velocity_z |-> F32_0],
      [longitude |-> F64_m0_5, latitude |-> F64_1, altitude |-> F32_m2_5,
       velocity_x |-> F32_0, velocity_y |-> F32_10, velocity_z |-> F32_1] }

GnssYears == {1999, 2000, 2024, 2100, 2101}

GnssInputs ==
    { [year |-> y] @@ c @@ p : y \in GnssYears, c \in GnssCalendars, p \in GnssPayloads }

\* The 46-byte Position window that carries the fields f (layout of the
\* offsets parse_gnss_frame reads), with its trailing checksum byte.
EncodeGnss(f) ==
    LET body == PackU16(f.year) \o <<f.month, f.day, f.hour, f.minute>>
                \o PackU32(f.microsecond)
                \o f.longitude \o f.latitude \o f.altitude
                \o f.velocity_x \o f.velocity_y \o f.velocity_z
    IN  GNSS_HEADER \o <<46>> \o body \o <<SumBytes(body) % 256>>

InsInputs ==
    { [gyro_x |-> F64_1, gyro_y |-> F64_0, gyro_z |-> F64_m0_5,
       accel_x |-> F64_0, accel_y |-> F64_121_5, accel_z |-> F64_31_2],
      [gyro_x |-> F64_0, gyro_y |-> F64_0, gyro_z |-> F64_0,
       accel_x |-> F64_0, accel_y |-> F64_0, accel_z |-> F64_0] }

\* The 52-byte Inertial window that carries the fields f.
EncodeIns(f) ==
    LET body == f.gyro_x \o f.gyro_y \o f.gyro_z \o f.accel_x \o f.accel_y \o f.accel_z
    IN  INS_HEADER \o <<52>> \o body \o <<SumBytes(body) % 256>>

NoEdit == [op |-> "none"]

\* Alterations of a window of n bytes: one byte replaced by another value,
\* or the window cut short.
Edits(w) ==
    {NoEdit}
    \cup { [op |-> "replace", pos |-> p, val |-> v] :
             p \in 0..(Len(w) - 1), v \in Byte }
    \cup { [op |-> "truncate", len |-> n] : n \in {0, 2, Len(w) - 1} }

ApplyEdit(w, e) ==
    IF e.op = "replace" THEN [w EXCEPT ![e.pos + 1] = e.val]
    ELSE IF e.op = "truncate" THEN SubSeq(w, 1, e.len)
    ELSE w

-----------------------------------------------------------------------------
(* Specification: one frame decoded by one decoder *)

DecodeIdle ==
    /\ frame_kind = "idle" /\ data = <<>> /\ encoded = <<>>
    /\ edit = NoEdit /\ decoded = Pending

DecodeStart ==
    /\ decoded = Pending
    /\ \/ /\ frame_kind = "gnss"
          /\ \E f \in GnssInputs :
               \E e \in Edits(EncodeGnss(f)) :
                  /\ e.op = "replace" => e.val # At(EncodeGnss(f), e.pos)
                  /\ encoded = f
                  /\ edit = e
                  /\ data = ApplyEdit(EncodeGnss(f), e)
       \/ /\ frame_kind = "ins"
          /\ \E f \in InsInputs :
               \E e \in Edits(EncodeIns(f)) :
                  /\ e.op = "replace" => e.val # At(EncodeIns(f), e.pos)
                  /\ encoded = f
                  /\ edit = e
                  /\ data = ApplyEdit(EncodeIns(f), e)

\* HexFrameParser.parse_gnss_frame(data)
ParseGnssFrame ==
    /\ frame_kind = "gnss"
    /\ decoded = Pending
    /\ decoded' = parse_gnss_frame(data)
    /\ UNCHANGED <<frame_kind, data, encoded, edit>>
    /\ UNCHANGED <<scan_vars, time_vars, result_vars, conv_vars, align_vars, interp_vars, insfile_vars, pipe_vars, web_vars>>

\* INSFrameParser.parse_ins_frame(data)
ParseInsFrame ==
    /\ frame_kind = "ins"
    /\ decoded = Pending
    /\ decoded' = INSFrameParser_parse_ins_frame(data)
    /\ UNCHANGED <<frame_kind, data, encoded, edit>>
    /\ UNCHANGED <<scan_vars, time_vars, result_vars, conv_vars, align_vars, interp_vars, insfile_vars, pipe_vars, web_vars>>

NextDecode == ParseGnssFrame \/ ParseInsFrame

-----------------------------------------------------------------------------
(* parsers/hex_parser.py: HexFrameParser.parse_ins_frame and parse_file *)

\* The Inertial half of a 98-byte composite window (bytes 46..97); the
\* calendar fields are those of the Position half.
HexFrameParser_parse_ins_frame(d) ==
    IF Len(d) < 98 THEN None
    ELSE IF Slice(d, 46, 48) # INS_HEADER THEN None
    ELSE IF At(d, 48) # INS_LENGTH THEN None
    ELSE IF checksum(Slice(d, 49, 97)) # At(d, 97) THEN None
    ELSE IMUData([year |-> U16LE(Slice(d, 3, 5)),
                  month |-> At(d, 5), day |-> At(d, 6),
                  hour |-> At(d, 7), minute |-> At(d, 8),
                  microsecond |-> U32LE(Slice(d, 9, 13)),
                  gyro_x |-> Slice(d, 49, 57),
                  gyro_y |-> Slice(d, 57, 65),
                  gyro_z |-> Slice(d, 65, 73),
                  accel_x |-> Slice(d, 73, 81),
                  accel_y |-> Slice(d, 81, 89),
                  accel_z |-> Slice(d, 89, 97)])

\* Bounds of the scanned buffers
MaxGarbage == 3

MaxFrames == 2

MaxTail == 2

GarbageBytes == {0, 153}

RECURSIVE Garbage(_)
Garbage(n) ==
    IF n = 0 THEN {<<>>}
    ELSE { <<b>> \o g : b \in GarbageBytes, g \in Garbage(n - 1) }

\* Field values of the windows a scanned buffer is built from
ScanGnssFields ==
    [year |-> 2024, month |-> 6, day |-> 1, hour |-> 12, minute |-> 0,
     microsecond |-> 0, longitude |-> F64_121_5, latitude |-> F64_31_2,
     altitude |-> F32_10, velocity_x |-> F32_1, velocity_y |-> F32_0,
     velocity_z |-> F32_0]

ScanInsFields ==
    [gyro_x |-> F64_1, gyro_y |-> F64_0, gyro_z |-> F64_m0_5,
     accel_x |-> F64_0, accel_y |-> F64_121_5, accel_z |-> F64_31_2]

\* A window with its trailing checksum byte made wrong
BadChecksum(w) == [w EXCEPT ![Len(w)] = (w[Len(w)] + 1) % 256]

GnssHalf(kind) ==
    IF kind = "ok" THEN EncodeGnss(ScanGnssFields)
    ELSE IF kind = "year" THEN EncodeGnss([ScanGnssFields EXCEPT !.year = 2101])
    ELSE BadChecksum(EncodeGnss(ScanGnssFields))

InsHalf(kind) ==
    IF kind = "ok" THEN EncodeIns(ScanInsFields)
    ELSE BadChecksum(EncodeIns(ScanInsFields))

WindowKinds == [gnss : {"ok", "year", "sum"}, ins : {"ok", "sum"}]

\* The 98-byte composite window of kind k: Position half, then Inertial half
Composite(k) == GnssHalf(k.gnss) \o InsHalf(k.ins)

RECURSIVE Concat(_)
Concat(ws) == IF ws = <<>> THEN <<>> ELSE Composite(Head(ws)) \o Concat(Tail(ws))

Layouts == UNION { [1..n -> WindowKinds] : n \in 0..MaxFrames }

ScanIdle ==
    /\ binary_data = <<>> /\ offset = 0 /\ gnss_list = <<>> /\ imu_list = <<>>
    /\ scan_pc = "idle" /\ garbage_len = 0 /\ layout = <<>> /\ cursors = <<>>

\* parse_file after the file has been read and turned into bytes (lines
\* 152-165): empty lists, cursor 0
ScanStart ==
    /\ \E k \in 0..MaxGarbage, t \in 0..MaxTail :
         \E g \in Garbage(k), l \in Layouts :
            /\ garbage_len = k
            /\ layout = l
            /\ binary_data = g \o Concat(l) \o [i \in 1..t |-> 0]
    /\ offset = 0
    /\ gnss_list = <<>>
    /\ imu_list = <<>>
    /\ scan_pc = "loop"
    /\ cursors = <<>>

\* One pass through the body of the while loop of parse_file (lines
\* 166-187) that does not leave the loop, or leaves it by an exception.
ScanIter ==
    /\ scan_pc = "loop"
    /\ offset < Len(binary_data)
    /\ ~(offset + 98 > Len(binary_data))
    /\ LET frame_data == Slice(binary_data, offset, offset + 98)
           gnss == parse_gnss_frame(frame_data)
           ins == HexFrameParser_parse_ins_frame(frame_data)
       IN  /\ cursors' = Append(cursors, offset)
           /\ IF gnss.kind = "raise"
              THEN /\ scan_pc' = "raised"
                   /\ UNCHANGED <<offset, gnss_list, imu_list>>
              ELSE /\ gnss_list' = IF gnss # None THEN Append(gnss_list, gnss)
                                   ELSE gnss_list
                   /\ IF ins.kind = "raise"
                      THEN /\ scan_pc' = "raised"
                           /\ UNCHANGED <<offset, imu_list>>
                      ELSE /\ imu_list' = IF ins # None THEN Append(imu_list, ins)
                                          ELSE imu_list
                           /\ offset' = IF gnss # None /\ ins # None
                                        THEN offset + 98
                                        ELSE offset + 1
                           /\ scan_pc' = "loop"
    /\ UNCHANGED <<binary_data, garbage_len, layout>>
    /\ UNCHANGED <<decode_vars, time_vars, result_vars, conv_vars, align_vars, interp_vars, insfile_vars, pipe_vars, web_vars>>

\* The loop ends (line 166 false, or the break of lines 168-170) and
\* parse_file returns the two lists (line 189).
ScanReturn ==
    /\ scan_pc = "loop"
    /\ ~(offset < Len(binary_data) /\ offset + 98 <= Len(binary_data))
    /\ scan_pc' = "returned"
    /\ UNCHANGED <<binary_data, offset, gnss_list, imu_list, garbage_len, layout, cursors>>
    /\ UNCHANGED <<decode_vars, time_vars, result_vars, conv_vars, align_vars, interp_vars, insfile_vars, pipe_vars, web_vars>>

NextScan == ScanIter \/ ScanReturn

-----------------------------------------------------------------------------
(* Timestamps and the calendar (datetime) *)

\* A float number of seconds that is a whole number of microseconds:
\* min whole minutes plus us microseconds, 0 <= us < 60000000.
Ts(m, u) == [kind |-> "float", min |-> m + (u \div 60000000), us |-> u % 60000000]

NaN == [kind |-> "nan"]

\* a + n / 1e6
TsAdd(a, n) == Ts(a.min, a.us + n)

TsLess(a, b) == a.min < b.min \/ (a.min = b.min /\ a.us < b.us)

IsLeap(y) == y % 4 = 0 /\ (y % 100 # 0 \/ y % 400 = 0)

DaysInMonth(y, m) ==
    IF m = 2 THEN (IF IsLeap(y) THEN 29 ELSE 28)
    ELSE IF m \in {4, 6, 9, 11} THEN 30 ELSE 31

\* datetime(year, month, day, hour, minute, 0) accepts its arguments
DatetimeArgsOk(y, m, d, h, mi) ==
    /\ y \in 1..9999
    /\ m \in 1..12
    /\ d \in 1..DaysInMonth(y, m)
    /\ h \in 0..23
    /\ mi \in 0..59

\* Days from 1970-01-01 to the civil date y-m-d (proleptic Gregorian)
DaysFromCivil(y, m, d) ==
    LET yy == IF m <= 2 THEN y - 1 ELSE y
        era == yy \div 400
        yoe == yy - era * 400
        mp == IF m > 2 THEN m - 3 ELSE m + 9
        doy == (153 * mp + 2) \div 5 + d - 1
        doe == yoe * 365 + yoe \div 4 - yoe \div 100 + doy
    IN  era * 146097 + doe - 719468

\* The civil date of the day z days after 1970-01-01
CivilFromDays(z) ==
    LET zz == z + 719468
        era == zz \div 146097
        doe == zz - era * 146097
        yoe == (doe - doe \div 1460 + doe \div 36524 - doe \div 146096) \div 365
        doy == doe - (365 * yoe + yoe \div 4 - yoe \div 100)
        mp == (5 * doy + 2) \div 153
        d == doy - (153 * mp + 2) \div 5 + 1
        m == IF mp < 10 THEN mp + 3 ELSE mp - 9
    IN  [year |-> yoe + era * 400 + (IF m <= 2 THEN 1 ELSE 0), month |-> m, day |-> d]

\* datetime(y, m, d, h, mi, 0).timestamp() + us / 1e6, the local time zone
\* being UTC; ValueError when datetime() refuses the arguments.
CalendarToUnix(y, m, d, h, mi, us) ==
    IF DatetimeArgsOk(y, m, d, h, mi)
    THEN Ts(DaysFromCivil(y, m, d) * 1440 + h * 60 + mi, us)
    ELSE Raise("ValueError")

\* GNSSData.to_timestamp / IMUData.to_timestamp / NavigationResult.to_timestamp
to_timestamp(r) ==
    CalendarToUnix(r.year, r.month, r.day, r.hour, r.minute, r.microsecond)

\* sync/__init__.py: TimestampConverter.to_unix_timestamp
to_unix_timestamp(year, month, day, hour, minute, microsecond) ==
    CalendarToUnix(year, month, day, hour, minute, microsecond)

CalYears == {0, 1970, 2000, 2023, 2024, 2100}

CalMonths == {0, 1, 2, 12, 13}

CalDays == {0, 1, 28, 29, 30, 31, 32}

CalHours == {0, 23, 24}

CalMinutes == {0, 59, 60}

CalMicroseconds == {0, 999999, 59999999}

TimeIdle == rec = <<>> /\ rec0 = <<>> /\ conv_out = Pending

\* A Position record whose timestamp has not been derived yet
TimeStart ==
    /\ \E y \in CalYears, m \in CalMonths, d \in CalDays, h \in CalHours,
          mi \in CalMinutes, us \in CalMicroseconds :
         rec = [kind |-> "GNSSData", timestamp |-> Ts(0, 0), year |-> y,
                month |-> m, day |-> d, hour |-> h, minute |-> mi,
                microsecond |-> us]
    /\ rec0 = rec
    /\ conv_out = Pending

\* rec.to_timestamp()
ToTimestamp ==
    /\ conv_out = Pending
    /\ rec # <<>>
    /\ conv_out' = [call |-> "to_timestamp", out |-> to_timestamp(rec)]
    /\ UNCHANGED <<rec, rec0>>
    /\ UNCHANGED <<decode_vars, scan_vars, result_vars, conv_vars, align_vars, interp_vars, insfile_vars, pipe_vars, web_vars>>

\* TimestampConverter.to_unix_timestamp(rec.year, ..., rec.microsecond)
ToUnixTimestamp ==
    /\ conv_out = Pending
    /\ rec # <<>>
    /\ conv_out' = [call |-> "to_unix_timestamp",
                    out |-> to_unix_timestamp(rec.year, rec.month, rec.day,
                                              rec.hour, rec.minute, rec.microsecond)]
    /\ UNCHANGED <<rec, rec0>>
    /\ UNCHANGED <<decode_vars, scan_vars, result_vars, conv_vars, align_vars, interp_vars, insfile_vars, pipe_vars, web_vars>>

\* sync/__init__.py: TimestampConverter.convert_gnss_data([rec])
ConvertGnssData ==
    /\ conv_out = Pending
    /\ rec # <<>>
    /\ LET t == to_unix_timestamp(rec.year, rec.month, rec.day,
                                  rec.hour, rec.minute, rec.microsecond)
       IN  IF t.kind = "raise"
           THEN /\ conv_out' = [call |-> "convert_gnss_data", out |-> t]
                /\ rec' = rec
           ELSE /\ conv_out' = [call |-> "convert_gnss_data", out |-> None]
                /\ rec' = [rec EXCEPT !.timestamp = t]
    /\ UNCHANGED rec0
    /\ UNCHANGED <<decode_vars, scan_vars, result_vars, conv_vars, align_vars, interp_vars, insfile_vars, pipe_vars, web_vars>>

NextTime == ToTimestamp \/ ToUnixTimestamp \/ ConvertGnssData

-----------------------------------------------------------------------------
(* parsers/result_parser.py: ResultParser *)

FRAME_SIZE == 160

ResultDoubles ==
    <<"combined_longitude", "combined_latitude", "combined_altitude",
      "combined_vel_x", "combined_vel_y", "combined_vel_z",
      "combined_roll", "combined_heading", "combined_pitch",
      "ins_longitude", "ins_latitude", "ins_altitude",
      "ins_vel_x", "ins_vel_y", "ins_vel_z",
      "ins_roll", "ins_heading", "ins_pitch">>

NavigationResult_required ==
    {"timestamp", "year", "month", "day", "hour", "minute", "microsecond",
     "nav_status", "frame_index"} \cup { ResultDoubles[i] : i \in 1..18 }

\* The dataclass-generated NavigationResult.__init__ called with keyword
\* arguments kw.
NavigationResult(kw) ==
    IF NavigationResult_required \subseteq DOMAIN kw
    THEN [kind |-> "NavigationResult"] @@ kw
    ELSE Raise("TypeError")

\* The 18 doubles read from offset 11 on, 8 bytes each
ResultDoubleFields(d) ==
    [n \in { ResultDoubles[i] : i \in 1..18 } |->
        LET i == CHOOSE j \in 1..18 : ResultDoubles[j] = n
        IN  Slice(d, 11 + 8 * (i - 1), 11 + 8 * i)]

\* The year check of parse_frame: a year outside [2000, 2100] gives None
ResultYearIllegal(year) == year < 2000 \/ year > 2100

ResultParser_parse_frame(d) ==
    IF Len(d) < FRAME_SIZE THEN None
    ELSE LET year == U16LE(Slice(d, 0, 2))
             month == At(d, 2)
             day == At(d, 3)
             hour == At(d, 4)
             minute == At(d, 5)
             microsecond == U32LE(Slice(d, 6, 10))
             nav_status == I8(Slice(d, 10, 11))
             frame_index == I32LE(Slice(d, 155, 159))
         IN  IF ResultYearIllegal(year) THEN None
             ELSE NavigationResult(
                    [timestamp |-> Ts(0, 0),
                     year |-> year, month |-> month, day |-> day,
                     hour |-> hour, minute |-> minute,
                     microsecond |-> microsecond,
                     nav_status |-> nav_status,
                     frame_index |-> frame_index] @@ ResultDoubleFields(d))

\* Bounds of the scanned FusedResult buffers
MaxResultFrames == 2

ResultTails == {0, 1, 159}

ResultInputs ==
    [year : {1999, 2024, 2101}, month : {6, 13}, nav_status : {0, 1, 2, -1}]

\* The 160-byte FusedResult frame that carries f: the fields at the offsets
\* parse_frame reads, day 1, 12:00, frame index 7, and one unused last byte.
EncodeResult(f) ==
    PackU16(f.year) \o <<f.month, 1, 12, 0>> \o PackU32(0)
    \o <<f.nav_status % 256>>
    \o F64_121_5 \o F64_31_2 \o F64_1 \o F64_0 \o F64_0 \o F64_m0_5
    \o F64_0 \o F64_1 \o F64_0
    \o F64_121_5 \o F64_31_2 \o F64_1 \o F64_0 \o F64_0 \o F64_m0_5
    \o F64_0 \o F64_1 \o F64_0
    \o PackU32(7) \o <<0>>

RECURSIVE ConcatResults(_)
ConcatResults(fs) ==
    IF fs = <<>> THEN <<>> ELSE EncodeResult(Head(fs)) \o ConcatResults(Tail(fs))

ResultIdle ==
    /\ res_data = <<>> /\ res_offset = 0 /\ results = <<>>
    /\ res_pc = "idle" /\ res_layout = <<>>

\* parse_file after the file has been read and turned into bytes (lines
\* 132-146)
ResultStart ==
    /\ \E n \in 0..MaxResultFrames, t \in ResultTails :
         \E l \in [1..n -> ResultInputs] :
            /\ res_layout = l
            /\ res_data = ConcatResults(l) \o [i \in 1..t |-> 0]
    /\ res_offset = 0
    /\ results = <<>>
    /\ res_pc = "loop"

\* One pass through the while loop of parse_file (lines 147-152)
ResultIter ==
    /\ res_pc = "loop"
    /\ res_offset + FRAME_SIZE <= Len(res_data)
    /\ LET frame_data == Slice(res_data, res_offset, res_offset + FRAME_SIZE)
           result == ResultParser_parse_frame(frame_data)
       IN  /\ results' = IF result # None THEN Append(results, result) ELSE results
           /\ res_offset' = res_offset + FRAME_SIZE
    /\ UNCHANGED <<res_data, res_pc, res_layout>>
    /\ UNCHANGED <<decode_vars, scan_vars, time_vars, conv_vars, align_vars, interp_vars, insfile_vars, pipe_vars, web_vars>>

\* The loop ends and parse_file returns results (lines 154-157)
ResultReturn ==
    /\ res_pc = "loop"
    /\ ~(res_offset + FRAME_SIZE <= Len(res_data))
    /\ res_pc' = "returned"
    /\ UNCHANGED <<res_data, res_offset, results, res_layout>>
    /\ UNCHANGED <<decode_vars, scan_vars, time_vars, conv_vars, align_vars, interp_vars, insfile_vars, pipe_vars, web_vars>>

NextResult == ResultIter \/ ResultReturn

-----------------------------------------------------------------------------
(* sync/time_sync.py: TimestampConverter.convert_imu_data *)

\* A finite float past the last second of the year 9999
BeyondDatetime == [kind |-> "float", beyond |-> 9999]

\* datetime.fromtimestamp(t), the local time zone being UTC: ValueError for
\* NaN and for a time outside the years 1..9999
FromTimestamp(t) ==
    IF t = NaN \/ t = BeyondDatetime THEN Raise("ValueError")
    ELSE LET c == CivilFromDays(t.min \div 1440)
         IN  IF c.year \in 1..9999
             THEN [kind |-> "datetime", year |-> c.year, month |-> c.month,
                   day |-> c.day, hour |-> (t.min % 1440) \div 60,
                   minute |-> t.min % 60, second |-> t.us \div 1000000,
                   microsecond |-> t.us % 1000000]
             ELSE Raise("ValueError")

\* dt = 1.0 / frequency, in microseconds (frequency divides 10^6)
SamplePeriod(f) == 1000000 \div f

\* start_timestamp + i * dt for the record at index i (line 31)
current_timestamp_next(start, i, dt) == TsAdd(start, (i + 1) * dt)

current_timestamp(start, i, dt) == TsAdd(start, i * dt)

\* The frequency 1e-12 Hz, written as its decimal exponent: the only
\* frequency of the model that is not a whole number of Hz.  Its period of
\* 1e12 s takes every timestamp of the model past the year 9999.
TinyFrequency == -12

\* start_timestamp + i * dt of line 31 for the frequency f
SynthesizedTimestamp(start, i, f) ==
    IF f = TinyFrequency
    THEN (IF i = 0 \/ start = NaN THEN start ELSE BeyondDatetime)
    ELSE current_timestamp(start, i, SamplePeriod(f))

\* Lines 34-43: the calendar fields and the timestamp of one record
\* overwritten
SetTimeFields_sensor(imu, current_dt, t) ==
    [imu EXCEPT !.year = current_dt.year, !.month = current_dt.month,
                !.day = current_dt.day, !.hour = current_dt.hour,
                !.minute = current_dt.minute,
                !.microsecond = current_dt.microsecond,
                !.timestamp = t, !.accel_z = F64_0]

SetTimeFields(imu, current_dt, t) ==
    [imu EXCEPT !.year = current_dt.year, !.month = current_dt.month,
                !.day = current_dt.day, !.hour = current_dt.hour,
                !.minute = current_dt.minute,
                !.microsecond = current_dt.microsecond,
                !.timestamp = t]

\* Bound of the Inertial sequences
MaxImu == 6

Frequencies == {0, 1, 10, 100, TinyFrequency}

\* 1000.0, 2024-06-01 12:00:00, 2024-12-31 23:59:59.95, NaN
StartTimestamps == {Ts(16, 40000000), Ts(28620720, 0), Ts(28928159, 59950000), NaN}

\* The Inertial record number n of a sequence as the line-oriented parser
\* documents it: epoch calendar fields, the sensor fields of frame n
ImuRecord(n) ==
    [kind |-> "IMUData", timestamp |-> Ts(0, 0), year |-> 1970, month |-> 1,
     day |-> 1, hour |-> 0, minute |-> 0, microsecond |-> 0,
     gyro_x |-> <<n, 0, 0, 0, 0, 0, 240, 63>>, gyro_y |-> F64_0,
     gyro_z |-> F64_m0_5, accel_x |-> <<0, n, 0, 0, 0, 0, 0, 64>>,
     accel_y |-> F64_1, accel_z |-> F64_121_5]

ConvIdle ==
    /\ conv_list = <<>> /\ imu_input = <<>> /\ start_timestamp = NaN
    /\ frequency = 0 /\ conv_i = 0 /\ conv_pc = "idle"

\* The call convert_imu_data(imu_list, start_timestamp, frequency)
ConvStart ==
    /\ \E m \in 0..MaxImu : conv_list = [n \in 1..m |-> ImuRecord(n)]
    /\ imu_input = conv_list
    /\ start_timestamp \in StartTimestamps
    /\ frequency \in Frequencies
    /\ conv_i = 0
    /\ conv_pc = "enter"

\* Lines 27-28: dt = 1.0 / frequency; start_dt = datetime.fromtimestamp(...)
ConvertImuEnter ==
    /\ conv_pc = "enter"
    /\ conv_pc' = IF frequency = 0 THEN "raised"
                  ELSE IF FromTimestamp(start_timestamp).kind = "raise" THEN "raised"
                  ELSE "loop"
    /\ UNCHANGED <<conv_list, imu_input, start_timestamp, frequency, conv_i>>
    /\ UNCHANGED <<decode_vars, scan_vars, time_vars, result_vars, align_vars, interp_vars, insfile_vars, pipe_vars, web_vars>>

\* Lines 30-43: the loop body for the record at index conv_i
ConvertImuIter ==
    /\ conv_pc = "loop"
    /\ conv_i < Len(conv_list)
    /\ LET i == conv_i
           t == SynthesizedTimestamp(start_timestamp, i, frequency)
           current_dt == FromTimestamp(t)
       IN  IF current_dt.kind = "raise"
           THEN /\ conv_pc' = "raised"
                /\ UNCHANGED <<conv_list, conv_i>>
           ELSE /\ conv_list' =
                      [conv_list EXCEPT ![i + 1] = SetTimeFields(@, current_dt, t)]
                /\ conv_i' = conv_i + 1
                /\ conv_pc' = "loop"
    /\ UNCHANGED <<imu_input, start_timestamp, frequency>>
    /\ UNCHANGED <<decode_vars, scan_vars, time_vars, result_vars, align_vars, interp_vars, insfile_vars, pipe_vars, web_vars>>

\* Line 45: return imu_list
ConvertImuReturn ==
    /\ conv_pc = "loop"
    /\ conv_i = Len(conv_list)
    /\ conv_pc' = "returned"
    /\ UNCHANGED <<conv_list, imu_input, start_timestamp, frequency, conv_i>>
    /\ UNCHANGED <<decode_vars, scan_vars, time_vars, result_vars, align_vars, interp_vars, insfile_vars, pipe_vars, web_vars>>

NextConv == ConvertImuEnter \/ ConvertImuIter \/ ConvertImuReturn

-----------------------------------------------------------------------------
(* Python float / numpy float64: IEEE-754 binary64, round to nearest even *)

\* A natural number is kept as its digits in base 8192 = 2^13, least
\* significant first, with no leading zero (zero is the empty sequence).
LTrim(d) ==
    IF d = <<>> \/ d[Len(d)] # 0 THEN d
    ELSE IF \A i \in 1..Len(d) : d[i] = 0 THEN <<>>
    ELSE SubSeq(d, 1, CHOOSE i \in 1..Len(d) :
                          d[i] # 0 /\ \A j \in (i + 1)..Len(d) : d[j] = 0)

LDigit(d, i) == IF i <= Len(d) THEN d[i] ELSE 0

\* The digits of n < 2^30
NatLimbs(n) == LTrim(<<n % 8192, (n \div 8192) % 8192, n \div 67108864>>)

\* The number whose entry of weight 8192^(k-1) is d[k] >= 0, from position i
\* on, with carry c
RECURSIVE Carry(_, _, _)
Carry(d, i, c) ==
    IF i > Len(d)
    THEN IF c = 0 THEN <<>> ELSE <<c % 8192>> \o Carry(d, i, c \div 8192)
    ELSE <<(d[i] + c) % 8192>> \o Carry(d, i + 1, (d[i] + c) \div 8192)

LAdd(a, b) ==
    Carry([i \in 1..(IF Len(a) > Len(b) THEN Len(a) ELSE Len(b)) |->
              LDigit(a, i) + LDigit(b, i)], 1, 0)

\* a - b for a >= b: a plus the complement of b plus one, the carry out of
\* the top position dropped
LSub(a, b) ==
    LTrim(SubSeq(Carry([i \in 1..Len(a) |-> a[i] + 8191 - LDigit(b, i)], 1, 1),
                 1, Len(a)))

LLess(a, b) ==
    IF Len(a) # Len(b) THEN Len(a) < Len(b)
    ELSE \E i \in 1..Len(a) :
            a[i] < b[i] /\ \A j \in (i + 1)..Len(a) : a[j] = b[j]

\* a * 2^k and floor(a / 2^k)
LShl(a, k) ==
    IF a = <<>> THEN a
    ELSE [i \in 1..(k \div 13) |-> 0]
         \o Carry([i \in 1..Len(a) |-> a[i] * 2^(k % 13)], 1, 0)

LShr(a, k) ==
    IF Len(a) <= k \div 13 THEN <<>>
    ELSE LTrim([i \in 1..(Len(a) - (k \div 13)) |->
                   (a[i + (k \div 13)] \div 2^(k % 13))
                   + (LDigit(a, i + (k \div 13) + 1) % 2^(k % 13))
                     * 2^(13 - (k % 13))])

\* The binary digit of weight 2^p of a, the number of binary digits of a,
\* and whether a is a multiple of 2^k
LBit(a, p) == (LDigit(a, (p \div 13) + 1) \div 2^(p % 13)) % 2

LLen(a) ==
    IF a = <<>> THEN 0
    ELSE 13 * (Len(a) - 1)
         + (CHOOSE k \in 1..13 : 2^(k - 1) <= a[Len(a)] /\ a[Len(a)] < 2^k)

LLowZero(a, k) ==
    /\ \A i \in 1..(k \div 13) : LDigit(a, i) = 0
    /\ LDigit(a, (k \div 13) + 1) % 2^(k % 13) = 0

\* a * b for a and b of at most 5 digits
RECURSIVE SumProd(_, _, _, _)
SumProd(a, b, k, i) ==
    IF i > Len(a) THEN 0
    ELSE (IF k + 1 - i \in 1..Len(b) THEN a[i] * b[k + 1 - i] ELSE 0)
         + SumProd(a, b, k, i + 1)

LMul(a, b) ==
    IF a = <<>> \/ b = <<>> THEN <<>>
    ELSE LTrim(Carry([k \in 1..(Len(a) + Len(b) - 1) |-> SumProd(a, b, k, 1)], 1, 0))

\* n steps of the long division by b: the remainder is doubled, b is taken
\* off it when it fits, and the quotient gets the digit 1 or 0.  The first
\* half of the steps is evaluated (by the test on it) before the second.
RECURSIVE DivSteps(_, _, _)
DivSteps(b, n, st) ==
    IF n = 0 THEN st
    ELSE IF n = 1
    THEN LET r2 == LShl(st.r, 1)
         IN  IF LLess(r2, b) THEN [q |-> LShl(st.q, 1), r |-> r2]
             ELSE [q |-> LAdd(LShl(st.q, 1), <<1>>), r |-> LSub(r2, b)]
    ELSE LET first == DivSteps(b, n \div 2, st)
         IN  IF Len(first.q) >= 0 THEN DivSteps(b, n - (n \div 2), first) ELSE first

\* Quotient and remainder of a * 2^56 by b, for a and b of 53 binary digits
LDivMod56(a, b) ==
    DivSteps(b, 56, IF LLess(a, b) THEN [q |-> <<>>, r |-> a]
                    ELSE [q |-> <<1>>, r |-> LSub(a, b)])

\* A finite float is (-1)^s * m * 2^e with a mantissa m = hi * 2^26 + lo of
\* exactly 53 binary digits, or zero (hi = lo = 0); exponent overflow and
\* subnormal numbers do not occur for the magnitudes used here.
FZero == [kind |-> "float64", s |-> 0, hi |-> 0, lo |-> 0, e |-> 0]

FIsNaN(a) == a.kind = "nan"

FIsZero(a) == a.hi = 0 /\ a.lo = 0

\* The digits of the mantissa of a
Mant(a) ==
    IF FIsZero(a) THEN <<>>
    ELSE <<a.lo % 8192, a.lo \div 8192, a.hi % 8192, (a.hi \div 8192) % 8192,
           a.hi \div 67108864>>

\* The float nearest to (-1)^s * (m + x) * 2^e, where 0 <= x < 1 and x > 0
\* exactly when sticky holds; ties go to the even mantissa.
FRound(s, m, e, sticky) ==
    IF m = <<>> THEN FZero
    ELSE LET k == LLen(m) - 53
             kept == IF k <= 0 THEN LShl(m, 0 - k) ELSE LShr(m, k)
             up   == /\ k > 0
                     /\ LBit(m, k - 1) = 1
                     /\ (sticky \/ ~LLowZero(m, k - 1) \/ LBit(kept, 0) = 1)
             r    == IF up THEN LAdd(kept, <<1>>) ELSE kept
             over == LLen(r) = 54
             r53  == IF over THEN LShr(r, 1) ELSE r
         IN  [kind |-> "float64", s |-> s,
              hi |-> r53[3] + 8192 * r53[4] + 67108864 * r53[5],
              lo |-> r53[1] + 8192 * r53[2],
              e |-> IF over THEN e + k + 1 ELSE e + k]

\* The float (-1)^s * (hi * 2^26 + lo) * 2^e, and float(n) for an int n >= 0
Dbl(s, hi, lo, e) == FRound(s, LAdd(LShl(NatLimbs(hi), 26), NatLimbs(lo)), e, FALSE)

FromInt(n) == FRound(0, NatLimbs(n), 0, FALSE)

FNeg(a) == IF FIsNaN(a) \/ FIsZero(a) THEN a ELSE [a EXCEPT !.s = 1 - @]

\* abs(a)
FAbs(a) == IF FIsNaN(a) THEN a ELSE [a EXCEPT !.s = 0]

\* a + b; an operand more than 2^54 times smaller than the other does not
\* change it
FAdd(a, b) ==
    IF FIsNaN(a) \/ FIsNaN(b) THEN NaN
    ELSE IF FIsZero(a) THEN b
    ELSE IF FIsZero(b) THEN a
    ELSE IF a.e - b.e > 54 THEN a
    ELSE IF b.e - a.e > 54 THEN b
    ELSE LET e0 == IF a.e < b.e THEN a.e ELSE b.e
             ma == LShl(Mant(a), a.e - e0)
             mb == LShl(Mant(b), b.e - e0)
         IN  IF a.s = b.s THEN FRound(a.s, LAdd(ma, mb), e0, FALSE)
             ELSE IF LLess(ma, mb) THEN FRound(b.s, LSub(mb, ma), e0, FALSE)
             ELSE FRound(a.s, LSub(ma, mb), e0, FALSE)

\* a - b
FSub(a, b) == FAdd(a, FNeg(b))

\* a * b
FMul(a, b) ==
    IF FIsNaN(a) \/ FIsNaN(b) THEN NaN
    ELSE FRound((a.s + b.s) % 2, LMul(Mant(a), Mant(b)), a.e + b.e, FALSE)

\* a / b; Python raises ZeroDivisionError for b = 0
FDiv(a, b) ==
    IF FIsNaN(a) \/ FIsNaN(b) THEN NaN
    ELSE IF FIsZero(b) THEN Raise("ZeroDivisionError")
    ELSE IF FIsZero(a) THEN FZero
    ELSE LET d == LDivMod56(Mant(a), Mant(b))
         IN  FRound((a.s + b.s) % 2, d.q, a.e - b.e - 56, d.r # <<>>)

\* a < b (False when either is NaN)
FLess(a, b) ==
    /\ ~FIsNaN(a) /\ ~FIsNaN(b)
    /\ IF FIsZero(a) THEN ~FIsZero(b) /\ b.s = 0
       ELSE IF FIsZero(b) THEN a.s = 1
       ELSE IF a.s # b.s THEN a.s = 1
       ELSE LET below == \/ a.e < b.e
                         \/ /\ a.e = b.e
                            /\ (a.hi < b.hi \/ (a.hi = b.hi /\ a.lo < b.lo))
                above == \/ a.e > b.e
                         \/ /\ a.e = b.e
                            /\ (a.hi > b.hi \/ (a.hi = b.hi /\ a.lo > b.lo))
            IN  IF a.s = 0 THEN below ELSE above

-----------------------------------------------------------------------------
(* sync/time_sync.py: TimeAlignment *)

\* bisect.bisect_left(a, x, lo, hi)
RECURSIVE bisect_left(_, _, _, _)
bisect_left(a, x, lo, hi) ==
    IF lo < hi
    THEN LET mid == (lo + hi) \div 2
         IN  IF FLess(a[mid + 1], x) THEN bisect_left(a, x, mid + 1, hi)
             ELSE bisect_left(a, x, lo, mid)
    ELSE lo

\* The test of line 76: left_diff < right_diff
LeftIsNearer_flipped(left_diff, right_diff) == FLess(right_diff, left_diff)

LeftIsNearer(left_diff, right_diff) == FLess(left_diff, right_diff)

\* TimeAlignment.find_nearest_gnss; gnss_timestamps[0] of an empty list is
\* an IndexError
find_nearest_gnss(imu_timestamp, gnss_timestamps) ==
    LET n   == Len(gnss_timestamps)
        idx == bisect_left(gnss_timestamps, imu_timestamp, 0, n)
        d(i) == FAbs(FSub(gnss_timestamps[i + 1], imu_timestamp))
    IN  IF idx = 0
        THEN IF n = 0 THEN Raise("IndexError")
             ELSE [kind |-> "tuple", idx |-> 0, time_diff |-> d(0)]
        ELSE IF idx = n
        THEN [kind |-> "tuple", idx |-> n - 1, time_diff |-> d(n - 1)]
        ELSE IF LeftIsNearer(d(idx - 1), d(idx))
        THEN [kind |-> "tuple", idx |-> idx - 1, time_diff |-> d(idx - 1)]
        ELSE [kind |-> "tuple", idx |-> idx, time_diff |-> d(idx)]

\* max(xs) and min(xs) of a non-empty list of floats
RECURSIVE FMax(_)
FMax(xs) ==
    IF Len(xs) = 1 THEN xs[1]
    ELSE LET m == FMax(SubSeq(xs, 1, Len(xs) - 1))
         IN  IF FLess(m, xs[Len(xs)]) THEN xs[Len(xs)] ELSE m

RECURSIVE FMin(_)
FMin(xs) ==
    IF Len(xs) = 1 THEN xs[1]
    ELSE LET m == FMin(SubSeq(xs, 1, Len(xs) - 1))
         IN  IF FLess(xs[Len(xs)], m) THEN xs[Len(xs)] ELSE m

\* sum(xs): the floats added from left to right, starting from the int 0
RECURSIVE FSum(_)
FSum(xs) ==
    IF xs = <<>> THEN FZero
    ELSE FAdd(FSum(SubSeq(xs, 1, Len(xs) - 1)), xs[Len(xs)])

\* The thresholds 0.005 and 0.01 of lines 115-116
Threshold5ms == Dbl(0, 85899345, 61740155, -60)

Threshold10ms == Dbl(0, 85899345, 61740155, -59)

\* d < threshold (lines 115-116)
Within(d, threshold) == FLess(d, threshold)

\* TimeAlignment.validate_alignment; max() of an empty list is a ValueError
validate_alignment(pairs) ==
    LET time_diffs == [i \in 1..Len(pairs) |-> pairs[i][3]]
    IN  IF time_diffs = <<>> THEN Raise("ValueError")
        ELSE [kind |-> "dict",
              total_pairs |-> Len(pairs),
              max_time_diff |-> FMax(time_diffs),
              min_time_diff |-> FMin(time_diffs),
              avg_time_diff |-> FDiv(FSum(time_diffs), FromInt(Len(time_diffs))),
              pairs_within_5ms |->
                  Cardinality({i \in 1..Len(time_diffs) :
                                   Within(time_diffs[i], Threshold5ms)}),
              pairs_within_10ms |->
                  Cardinality({i \in 1..Len(time_diffs) :
                                   Within(time_diffs[i], Threshold10ms)})]

\* Bound of the query sequences
MaxQuery == 3

\* Reference timestamps 0.0, 1.0, 2.0, 3.0, and the ascending reference
\* lists made of them
RefValues == <<FZero, FromInt(1), FromInt(2), FromInt(3)>>

RefLists ==
    { [i \in 1..Len(s) |-> RefValues[s[i]]] :
        s \in {<<>>, <<1>>, <<4>>, <<1, 2>>, <<2, 3>>, <<3, 4>>, <<1, 2, 2, 4>>,
               <<1, 2, 3, 4>>} }

\* Query timestamps -5.0, 0.005, 0.01, 0.1, 1.0, 1.5, 1.6
QueryValues ==
    <<FNeg(FromInt(5)), Threshold5ms, Threshold10ms,
      Dbl(0, 107374182, 26843546, -56), FromInt(1),
      Dbl(0, 100663296, 0, -52), Dbl(0, 107374182, 26843546, -52)>>

\* The ascending sequences of at most max values of vals (itself ascending),
\* a value possibly repeated
AscendingLists(vals, max) ==
    UNION { { [i \in 1..n |-> vals[s[i]]] :
                s \in { t \in [1..n -> 1..Len(vals)] :
                          \A i \in 1..(n - 1) : t[i] <= t[i + 1] } } :
            n \in 0..max }

AlignIdle ==
    /\ align_gnss = <<>> /\ align_imu = <<>> /\ aligned_pairs = <<>>
    /\ align_report = Pending /\ align_pc = "idle"

\* The call align_data(gnss_list, imu_list): the reference records in
\* ascending order of timestamp, the query records in the ascending order
\* in which their timestamps were synthesized; longitude and gyro_x tell
\* the records of a list apart.
AlignStart ==
    /\ \E R \in RefLists :
         align_gnss = [i \in 1..Len(R) |->
                          [kind |-> "GNSSData", timestamp |-> R[i], longitude |-> i]]
    /\ \E Q \in AscendingLists(QueryValues, MaxQuery) :
         align_imu = [i \in 1..Len(Q) |->
                          [kind |-> "IMUData", timestamp |-> Q[i], gyro_x |-> i]]
    /\ aligned_pairs = <<>>
    /\ align_report = Pending
    /\ align_pc = "loop"

\* Lines 94-96: the loop body of align_data for the next query record
AlignIter ==
    /\ align_pc = "loop"
    /\ Len(aligned_pairs) < Len(align_imu)
    /\ LET gnss_timestamps == [i \in 1..Len(align_gnss) |-> align_gnss[i].timestamp]
           imu == align_imu[Len(aligned_pairs) + 1]
           found == find_nearest_gnss(imu.timestamp, gnss_timestamps)
       IN  IF found.kind = "raise"
           THEN /\ align_pc' = "raised"
                /\ align_report' = found
                /\ UNCHANGED aligned_pairs
           ELSE /\ aligned_pairs' =
                      Append(aligned_pairs,
                             <<align_gnss[found.idx + 1], imu, found.time_diff>>)
                /\ UNCHANGED <<align_pc, align_report>>
    /\ UNCHANGED <<align_gnss, align_imu>>
    /\ UNCHANGED <<decode_vars, scan_vars, time_vars, result_vars, conv_vars, interp_vars, insfile_vars, pipe_vars, web_vars>>

\* Line 98: return aligned_pairs
AlignReturn ==
    /\ align_pc = "loop"
    /\ Len(aligned_pairs) = Len(align_imu)
    /\ align_pc' = "aligned"
    /\ UNCHANGED <<align_gnss, align_imu, aligned_pairs, align_report>>
    /\ UNCHANGED <<decode_vars, scan_vars, time_vars, result_vars, conv_vars, interp_vars, insfile_vars, pipe_vars, web_vars>>

\* validate_alignment(aligned_pairs), called with what align_data returned
ValidateAlignment ==
    /\ align_pc = "aligned"
    /\ align_report' = validate_alignment(aligned_pairs)
    /\ align_pc' = IF align_report'.kind = "raise" THEN "raised" ELSE "validated"
    /\ UNCHANGED <<align_gnss, align_imu, aligned_pairs>>
    /\ UNCHANGED <<decode_vars, scan_vars, time_vars, result_vars, conv_vars, interp_vars, insfile_vars, pipe_vars, web_vars>>

NextAlign == AlignIter \/ AlignReturn \/ ValidateAlignment

-----------------------------------------------------------------------------
(* interpolation/gnss_interpolation.py: GNSSInterpolator and its subclasses *)

\* An exception that carries a message
RaiseMsg(exc, msg) == [kind |-> "raise", exc |-> exc, msg |-> msg]

\* sorted(xs, key=lambda g: g.timestamp) as CPython sorts fewer than 64
\* items: the leading run is found (and reversed when strictly descending),
\* the remaining items are put in place by binary insertion; the only
\* comparison made is key(a) < key(b).
RECURSIVE RunEnd(_, _, _)
RunEnd(xs, k, desc) ==
    IF k < Len(xs) /\ (FLess(xs[k + 1].timestamp, xs[k].timestamp) = desc)
    THEN RunEnd(xs, k + 1, desc) ELSE k

RECURSIVE BinaryPos(_, _, _, _)
BinaryPos(xs, pivot, l, r) ==
    IF l < r
    THEN LET p == l + (r - l) \div 2
         IN  IF FLess(pivot.timestamp, xs[p + 1].timestamp)
             THEN BinaryPos(xs, pivot, l, p) ELSE BinaryPos(xs, pivot, p + 1, r)
    ELSE l

RECURSIVE BinarySort(_, _)
BinarySort(xs, start) ==
    IF start >= Len(xs) THEN xs
    ELSE LET l == BinaryPos(xs, xs[start + 1], 0, start)
         IN  BinarySort(SubSeq(xs, 1, l) \o <<xs[start + 1]>>
                            \o SubSeq(xs, l + 1, start)
                            \o SubSeq(xs, start + 2, Len(xs)),
                        start + 1)

sorted_reversal(xs) == [i \in 1..Len(xs) |-> xs[Len(xs) + 1 - i]]

sorted(xs) ==
    IF Len(xs) < 2 THEN xs
    ELSE LET desc == FLess(xs[2].timestamp, xs[1].timestamp)
             n    == RunEnd(xs, 2, desc)
         IN  BinarySort(IF desc
                        THEN [i \in 1..Len(xs) |-> IF i <= n THEN xs[n + 1 - i] ELSE xs[i]]
                        ELSE xs, n)

\* The tolerance 1e-9 of line 56
Tolerance == Dbl(0, 72057594, 2545301, -82)

\* The test of line 56 on a record after the first:
\* abs(g.timestamp - prev_ts) > 1e-9
KeepsRecord_always(timestamp, prev_ts) == TRUE

KeepsRecord(timestamp, prev_ts) == FLess(Tolerance, FAbs(FSub(timestamp, prev_ts)))

\* Lines 53-60: the loop over sorted_gnss from item i on; dedup_gnss so far,
\* the messages so far, and prev_ts (None before the first record is kept)
RECURSIVE DedupFrom(_, _, _, _, _)
DedupFrom(sorted_gnss, i, dedup_gnss, prev_ts, log) ==
    IF i > Len(sorted_gnss) THEN [dedup_gnss |-> dedup_gnss, log |-> log]
    ELSE LET g == sorted_gnss[i]
         IN  IF prev_ts = None \/ KeepsRecord(g.timestamp, prev_ts)
             THEN DedupFrom(sorted_gnss, i + 1, Append(dedup_gnss, g), g.timestamp, log)
             ELSE DedupFrom(sorted_gnss, i + 1, dedup_gnss, prev_ts,
                            Append(log, [level |-> "debug", skipped |-> g.timestamp]))

\* GNSSInterpolator._sort_and_deduplicate: the list returned and the
\* messages logged
sort_and_deduplicate(gnss) ==
    LET sorted_gnss == sorted(gnss)
        d == DedupFrom(sorted_gnss, 1, <<>>, None, <<>>)
    IN  [dedup_gnss |-> d.dedup_gnss,
         log |-> IF Len(d.dedup_gnss) < Len(sorted_gnss)
                 THEN Append(d.log, [level |-> "info",
                                     removed |-> Len(sorted_gnss) - Len(d.dedup_gnss)])
                 ELSE d.log]

\* a <= b on floats (False when either is NaN)
FLessEq(a, b) == FLess(a, b) \/ (~FIsNaN(a) /\ a = b)

\* GNSSInterpolator._validate_input: the exception raised, or the messages
\* logged before gnss_timestamps is returned
validate_input(gnss, target_ts) ==
    LET gnss_timestamps == [i \in 1..Len(gnss) |-> gnss[i].timestamp]
    IN  IF Len(gnss) < 2
        THEN RaiseMsg("ValueError", "at least 2 points")
        ELSE IF \E i \in 1..Len(gnss_timestamps) : FIsNaN(gnss_timestamps[i])
        THEN RaiseMsg("ValueError", "NaN timestamp")
        ELSE [kind |-> "ok",
              log |->
                (IF \A i \in 1..(Len(gnss_timestamps) - 1) :
                        FLessEq(gnss_timestamps[i], gnss_timestamps[i + 1])
                 THEN <<>> ELSE <<[level |-> "warning", msg |-> "not increasing"]>>)
                \o
                (IF \/ \E j \in 1..Len(target_ts) :
                          FLess(target_ts[j], FMin(gnss_timestamps))
                    \/ \E j \in 1..Len(target_ts) :
                          FLess(FMax(gnss_timestamps), target_ts[j])
                 THEN <<[level |-> "warning", msg |-> "extrapolate"]>> ELSE <<>>)]

\* The six channels of _extract_fields
Channels ==
    {"longitude", "latitude", "altitude", "velocity_x", "velocity_y", "velocity_z"}

\* numpy float64 array arithmetic as interp1d uses it: a division by zero
\* gives inf or nan (with a RuntimeWarning) instead of raising
Inf(s) == [kind |-> "inf", s |-> s]

NpDiv(a, b) ==
    IF FIsNaN(a) \/ FIsNaN(b) THEN NaN
    ELSE IF FIsZero(b) THEN (IF FIsZero(a) THEN NaN ELSE Inf(a.s))
    ELSE FDiv(a, b)

NpMul(a, b) ==
    IF a.kind = "inf"
    THEN (IF FIsNaN(b) \/ FIsZero(b) THEN NaN ELSE Inf((a.s + b.s) % 2))
    ELSE FMul(a, b)

NpAdd(a, b) ==
    IF a.kind = "inf" THEN (IF FIsNaN(b) THEN NaN ELSE a) ELSE FAdd(a, b)

\* interp1d(x, y, kind='linear', fill_value='extrapolate')(x_new) of scipy
\* for one target: x and y are first reordered by a stable argsort of x
\* (assume_sorted is False); the segment is found with searchsorted, clipped
\* to 1..len(x)-1, and the value is slope * (x_new - x_lo) + y_lo
interp1d_linear(x, y, x_new) ==
    LET pts == sorted([i \in 1..Len(x) |-> [timestamp |-> x[i], value |-> y[i]]])
        xs == [i \in 1..Len(x) |-> pts[i].timestamp]
        ys == [i \in 1..Len(x) |-> pts[i].value]
        found == bisect_left(xs, x_new, 0, Len(xs))
        hi == IF found < 1 THEN 1 ELSE IF found > Len(xs) - 1 THEN Len(xs) - 1 ELSE found
        lo == hi - 1
        slope == NpDiv(FSub(ys[hi + 1], ys[lo + 1]), FSub(xs[hi + 1], xs[lo + 1]))
    IN  NpAdd(NpMul(slope, FSub(x_new, xs[lo + 1])), ys[lo + 1])

\* CubicSpline(x, y, bc_type='natural') of scipy rejects an x that is not
\* strictly increasing with a ValueError
StrictlyIncreasing(x) == \A i \in 1..(Len(x) - 1) : FLess(x[i], x[i + 1])

\* CubicSpline(x, y, bc_type='natural')(x_new) of scipy for one target:
\* the value at x_new of the natural cubic spline through the points of
\* clean_gnss, left as a term
CubicSpline_natural(channel, x_new) ==
    [kind |-> "spline", channel |-> channel, at |-> x_new]

\* Bound of the resampled sequences
MaxGnss == 3

\* Source timestamps 0.0, 6e-10, 1e-9, 1.2e-9, 2.0, 10.0, 10.0000000005, NaN
InterpTimestamps ==
    <<FZero, Dbl(0, 86469112, 56741452, -83), Tolerance,
      Dbl(0, 86469112, 56741452, -82), FromInt(2), FromInt(10),
      Dbl(0, 83886080, 281475, -49), NaN>>

\* Target lists: none; 0.0 and 2.0; 1.0 and 3.0
TargetLists == {<<>>, <<FZero, FromInt(2)>>, <<FromInt(1), FromInt(3)>>}

\* The Position record at position n of an input list, its timestamp being
\* InterpTimestamps[k]: longitude 0.0 at 0.0, 10.0 at 2.0 and 0.1
\* elsewhere; minute and altitude tell the records of a list apart.
InterpRecord(n, k) ==
    [kind |-> "GNSSData", timestamp |-> InterpTimestamps[k],
     year |-> 2024, month |-> 6, day |-> 1, hour |-> 12, minute |-> n,
     microsecond |-> 0,
     longitude |-> IF k = 1 THEN FZero ELSE IF k = 5 THEN FromInt(10)
                   ELSE Dbl(0, 107374182, 26843546, -56),
     latitude |-> Dbl(0, 130862284, 53687091, -48),
     altitude |-> FromInt(n),
     velocity_x |-> FromInt(1), velocity_y |-> FZero,
     velocity_z |-> FNeg(FromInt(k)),
     valid |-> TRUE]

InterpIdle ==
    /\ interp_method = "idle" /\ interp_gnss = <<>> /\ target_timestamps = <<>>
    /\ clean_gnss = <<>> /\ interp_results = Pending /\ interp_out = Pending
    /\ interp_log = <<>> /\ interp_pc = "idle"

\* The call interpolate(gnss_list, target_timestamps) of LinearInterpolator
\* or CubicSplineInterpolator, the records in any order
InterpStart ==
    /\ interp_method \in {"linear", "spline"}
    /\ \E n \in 0..MaxGnss : \E ks \in [1..n -> 1..Len(InterpTimestamps)] :
         interp_gnss = [i \in 1..n |-> InterpRecord(i, ks[i])]
    /\ target_timestamps \in TargetLists
    /\ clean_gnss = <<>>
    /\ interp_results = Pending
    /\ interp_out = Pending
    /\ interp_log = <<>>
    /\ interp_pc = "dedup"

\* Line 97 / 158: clean_gnss = _sort_and_deduplicate(gnss_list)
SortAndDeduplicate ==
    /\ interp_pc = "dedup"
    /\ LET r == sort_and_deduplicate(interp_gnss)
       IN  /\ clean_gnss' = r.dedup_gnss
           /\ interp_log' = interp_log \o r.log
    /\ interp_pc' = "validate"
    /\ UNCHANGED <<interp_method, interp_gnss, target_timestamps, interp_results, interp_out>>
    /\ UNCHANGED <<decode_vars, scan_vars, time_vars, result_vars, conv_vars, align_vars, insfile_vars, pipe_vars, web_vars>>

\* Lines 99-100 / 160-161: gnss_ts = _validate_input(clean_gnss, target_ts)
ValidateInput ==
    /\ interp_pc = "validate"
    /\ LET r == validate_input(clean_gnss, target_timestamps)
       IN  IF r.kind = "raise"
           THEN /\ interp_out' = r
                /\ interp_pc' = "raised"
                /\ UNCHANGED interp_log
           ELSE /\ interp_log' = interp_log \o r.log
                /\ interp_pc' = "fields"
                /\ UNCHANGED interp_out
    /\ UNCHANGED <<interp_method, interp_gnss, target_timestamps, clean_gnss, interp_results>>
    /\ UNCHANGED <<decode_vars, scan_vars, time_vars, result_vars, conv_vars, align_vars, insfile_vars, pipe_vars, web_vars>>

\* Lines 101-108 / 162-168: every channel interpolated at every target,
\* unless CubicSpline rejects gnss_ts
InterpolateFields ==
    /\ interp_pc = "fields"
    /\ LET gnss_ts == [i \in 1..Len(clean_gnss) |-> clean_gnss[i].timestamp]
           fields  == [c \in Channels |-> [i \in 1..Len(clean_gnss) |-> clean_gnss[i][c]]]
       IN  IF interp_method = "spline" /\ ~StrictlyIncreasing(gnss_ts)
           THEN /\ interp_out' = RaiseMsg("ValueError", "x must be strictly increasing")
                /\ interp_pc' = "raised"
                /\ UNCHANGED interp_results
           ELSE /\ interp_results' =
                     [c \in Channels |->
                        [j \in 1..Len(target_timestamps) |->
                            IF interp_method = "linear"
                            THEN interp1d_linear(gnss_ts, fields[c], target_timestamps[j])
                            ELSE CubicSpline_natural(c, target_timestamps[j])]]
                /\ interp_pc' = "build"
                /\ UNCHANGED interp_out
    /\ UNCHANGED <<interp_method, interp_gnss, target_timestamps, clean_gnss, interp_log>>
    /\ UNCHANGED <<decode_vars, scan_vars, time_vars, result_vars, conv_vars, align_vars, insfile_vars, pipe_vars, web_vars>>

\* Lines 110-136 / 170-193: one GNSSData per target, built from the calendar
\* fields of gnss_list[0] and the interpolated channels, its timestamp set
\* afterwards; the list is returned unless a constructor call raises.
BuildRecords ==
    /\ interp_pc = "build"
    /\ LET base_gnss == interp_gnss[1]
           gnss(i) == GNSSData([year |-> base_gnss.year, month |-> base_gnss.month,
                                day |-> base_gnss.day, hour |-> base_gnss.hour,
                                minute |-> base_gnss.minute,
                                microsecond |-> base_gnss.microsecond,
                                longitude |-> interp_results["longitude"][i],
                                latitude |-> interp_results["latitude"][i],
                                altitude |-> interp_results["altitude"][i],
                                velocity_x |-> interp_results["velocity_x"][i],
                                velocity_y |-> interp_results["velocity_y"][i],
                                velocity_z |-> interp_results["velocity_z"][i],
                                valid |-> TRUE])
       IN  IF target_timestamps # <<>> /\ gnss(1).kind = "raise"
           THEN /\ interp_out' = gnss(1)
                /\ interp_pc' = "raised"
           ELSE /\ interp_out' =
                      [kind |-> "list",
                       items |-> [i \in 1..Len(target_timestamps) |->
                                    [gnss(i) EXCEPT !.timestamp = target_timestamps[i]]]]
                /\ interp_pc' = "returned"
    /\ UNCHANGED <<interp_method, interp_gnss, target_timestamps, clean_gnss, interp_results, interp_log>>
    /\ UNCHANGED <<decode_vars, scan_vars, time_vars, result_vars, conv_vars, align_vars, insfile_vars, pipe_vars, web_vars>>

NextInterp == SortAndDeduplicate \/ ValidateInput \/ InterpolateFields \/ BuildRecords

-----------------------------------------------------------------------------
(* Text files: characters, str.strip and bytes.fromhex *)

\* The value of a hexadecimal digit character
HexValue ==
    [c \in {"0", "1", "2", "3", "4", "5", "6", "7", "8", "9",
            "a", "b", "c", "d", "e", "f"} |->
        CASE c = "0" -> 0 [] c = "1" -> 1 [] c = "2" -> 2 [] c = "3" -> 3
          [] c = "4" -> 4 [] c = "5" -> 5 [] c = "6" -> 6 [] c = "7" -> 7
          [] c = "8" -> 8 [] c = "9" -> 9 [] c = "a" -> 10 [] c = "b" -> 11
          [] c = "c" -> 12 [] c = "d" -> 13 [] c = "e" -> 14 [] c = "f" -> 15]

Whitespace == {" ", "\n"}

RECURSIVE lstrip(_)
lstrip(t) == IF t # <<>> /\ Head(t) \in Whitespace THEN lstrip(Tail(t)) ELSE t

RECURSIVE rstrip(_)
rstrip(t) ==
    IF t # <<>> /\ t[Len(t)] \in Whitespace
    THEN rstrip(SubSeq(t, 1, Len(t) - 1))
    ELSE t

\* str.strip()
strip(t) == rstrip(lstrip(t))

\* bytes.fromhex: whitespace between two bytes is passed over, every byte
\* is two adjacent hexadecimal digits, anything else is a ValueError.
\* (s is the text and at the positions of its characters that are not
\* whitespace, each bound as the element of a set so that it is worked
\* out once.)
bytes_fromhex(t) ==
    CHOOSE out \in UNION {
        { IF \/ Len(at) % 2 = 1
             \/ \E k \in 1..Len(at) : s[at[k]] \notin DOMAIN HexValue
             \/ \E k \in 1..(Len(at) \div 2) : at[2 * k] # at[2 * k - 1] + 1
          THEN Raise("ValueError")
          ELSE [kind |-> "bytes",
                value |-> [k \in 1..(Len(at) \div 2) |->
                              16 * HexValue[s[at[2 * k - 1]]] + HexValue[s[at[2 * k]]]]] :
            at \in {SelectSeq([i \in 1..Len(s) |-> i],
                              LAMBDA i : s[i] \notin Whitespace)} } :
        s \in {t} } : TRUE

\* The text a file holds for the bytes d: two lower-case digits per byte
HexChars == <<"0", "1", "2", "3", "4", "5", "6", "7", "8", "9",
              "a", "b", "c", "d", "e", "f">>

HexText(d) ==
    CHOOSE text \in
        { [i \in 1..(2 * Len(b)) |->
              IF i % 2 = 1 THEN HexChars[(b[(i + 1) \div 2] \div 16) + 1]
              ELSE HexChars[(b[i \div 2] % 16) + 1]] : b \in {d} } : TRUE

-----------------------------------------------------------------------------
(* parsers/ins_parser.py: INSFrameParser.parse_file *)

MaxLines == 2

ZeroInsFields ==
    [gyro_x |-> F64_0, gyro_y |-> F64_0, gyro_z |-> F64_0,
     accel_x |-> F64_0, accel_y |-> F64_0, accel_z |-> F64_0]

WellFormedKinds == {"ok", "zero", "padded"}

InsLineKinds ==
    WellFormedKinds
    \cup {"empty", "blank", "junk", "odd", "marker", "length", "sum", "short"}

\* The sensor fields a line of a well-formed kind carries
InsFieldsOf(kind) == IF kind = "zero" THEN ZeroInsFields ELSE ScanInsFields

\* One line of an Inertial-only file, with its line end
InsLine(kind) ==
    LET w == EncodeIns(InsFieldsOf(kind))
        body ==
            CASE kind \in {"ok", "zero"} -> HexText(w)
              [] kind = "padded" -> <<" ">> \o HexText(w) \o <<" ", " ">>
              [] kind = "empty" -> <<>>
              [] kind = "blank" -> <<" ", " ">>
              [] kind = "junk" -> <<"z", "z">> \o HexText(w)
              [] kind = "odd" -> SubSeq(HexText(w), 1, 2 * Len(w) - 1)
              [] kind = "marker" -> HexText([w EXCEPT ![1] = 84])
              [] kind = "length" -> HexText([w EXCEPT ![3] = 51])
              [] kind = "sum" -> HexText(BadChecksum(w))
              [] kind = "short" -> HexText(SubSeq(w, 1, Len(w) - 1))
    IN  body \o <<"\n">>

InsFiles == UNION { [1..n -> InsLineKinds] : n \in 0..MaxLines }

\* The body of the for loop of parse_file for one line (lines 88-101):
\* None when the line adds nothing, else the outcome of the record
\* construction.
DecodeLine(text) ==
    LET line == strip(text)
    IN  IF line = <<>> THEN None
        ELSE LET frame == bytes_fromhex(line)
             IN  IF frame.kind = "raise" THEN None
                 ELSE INSFrameParser_parse_ins_frame(frame.value)

\* parse_file from line i on, with the records collected so far
RECURSIVE ParseLinesFrom(_, _, _)
ParseLinesFrom(lines, i, list) ==
    IF i > Len(lines) THEN [kind |-> "list", items |-> list]
    ELSE LET imu == DecodeLine(lines[i])
         IN  IF imu.kind = "raise" THEN imu
             ELSE ParseLinesFrom(lines, i + 1,
                                 IF imu # None THEN Append(list, imu) ELSE list)

INSFrameParser_parse_file(lines) == ParseLinesFrom(lines, 1, <<>>)

InsfileIdle ==
    /\ ins_kinds = <<>> /\ ins_lines = <<>> /\ ins_done = 0
    /\ ins_imu_list = <<>> /\ ins_out = Pending /\ ins_pc = "idle"

\* parse_file with the file open and imu_list empty (lines 84-86)
InsfileStart ==
    /\ \E ks \in InsFiles :
          /\ ins_kinds = ks
          /\ ins_lines = [i \in 1..Len(ks) |-> InsLine(ks[i])]
    /\ ins_done = 0
    /\ ins_imu_list = <<>>
    /\ ins_out = Pending
    /\ ins_pc = "loop"

\* One pass through the for loop (lines 87-101): the line is passed over,
\* its record is appended, or the exception of the record construction
\* leaves parse_file.
InsFileLine ==
    /\ ins_pc = "loop"
    /\ ins_done < Len(ins_lines)
    /\ LET imu == DecodeLine(ins_lines[ins_done + 1])
       IN  IF imu.kind = "raise"
           THEN /\ ins_pc' = "raised"
                /\ ins_out' = imu
                /\ UNCHANGED <<ins_done, ins_imu_list>>
           ELSE /\ ins_imu_list' = IF imu # None THEN Append(ins_imu_list, imu)
                                   ELSE ins_imu_list
                /\ ins_done' = ins_done + 1
                /\ UNCHANGED <<ins_pc, ins_out>>
    /\ UNCHANGED <<ins_kinds, ins_lines>>
    /\ UNCHANGED <<decode_vars, scan_vars, time_vars, result_vars, conv_vars, align_vars, interp_vars, pipe_vars, web_vars>>

\* The file is exhausted and parse_file returns imu_list (line 103)
InsFileReturn ==
    /\ ins_pc = "loop"
    /\ ins_done = Len(ins_lines)
    /\ ins_pc' = "returned"
    /\ ins_out' = [kind |-> "list", items |-> ins_imu_list]
    /\ UNCHANGED <<ins_kinds, ins_lines, ins_done, ins_imu_list>>
    /\ UNCHANGED <<decode_vars, scan_vars, time_vars, result_vars, conv_vars, align_vars, interp_vars, pipe_vars, web_vars>>

NextInsfile == InsFileLine \/ InsFileReturn

-----------------------------------------------------------------------------
(* Whole calls of the parsers, converter, aligner and resamplers, as the
   pipeline makes them *)

List(items) == [kind |-> "list", items |-> items]

\* One pass through the while loop of HexFrameParser.parse_file (lines
\* 166-187) from the state st: the cursor, the two lists, and out, which is
\* Pending until the loop is left by its condition, the break or an exception
ScanStep(buf, st) ==
    IF st.out # Pending THEN st
    ELSE IF ~(st.offset < Len(buf)) \/ st.offset + 98 > Len(buf)
    THEN [st EXCEPT !.out = [kind |-> "tuple", gnss_list |-> st.gnss_list,
                             imu_list |-> st.imu_list]]
    ELSE LET frame_data == Slice(buf, st.offset, st.offset + 98)
             gnss == parse_gnss_frame(frame_data)
             ins == HexFrameParser_parse_ins_frame(frame_data)
         IN  IF gnss.kind = "raise" THEN [st EXCEPT !.out = gnss]
             ELSE IF ins.kind = "raise" THEN [st EXCEPT !.out = ins]
             ELSE [offset |-> IF gnss # None /\ ins # None THEN st.offset + 98
                              ELSE st.offset + 1,
                   gnss_list |-> IF gnss # None THEN Append(st.gnss_list, gnss)
                                 ELSE st.gnss_list,
                   imu_list |-> IF ins # None THEN Append(st.imu_list, ins)
                                ELSE st.imu_list,
                   out |-> Pending]

\* n passes through the loop (the state after the first half of the
\* passes is bound as the element of a set, so that it is worked out once)
RECURSIVE ScanSteps(_, _, _)
ScanSteps(buf, n, st) ==
    IF n = 0 THEN st
    ELSE IF n = 1 THEN ScanStep(buf, st)
    ELSE CHOOSE last \in
             { IF first.out # Pending THEN first
               ELSE ScanSteps(buf, n - (n \div 2), first) :
                 first \in {ScanSteps(buf, n \div 2, st)} } : TRUE

\* HexFrameParser.parse_file on the text of a file (lines 149-189): line
\* ends and spaces are taken out, text that is not hex gives two empty
\* lists; the loop is left after at most len(binary_data) + 1 passes
HexFrameParser_parse_file(text) ==
    CHOOSE out \in
        { IF decoded_bytes.kind = "raise"
          THEN [kind |-> "tuple", gnss_list |-> <<>>, imu_list |-> <<>>]
          ELSE ScanSteps(decoded_bytes.value, Len(decoded_bytes.value) + 1,
                         [offset |-> 0, gnss_list |-> <<>>, imu_list |-> <<>>,
                          out |-> Pending]).out :
            decoded_bytes \in
              {bytes_fromhex(SelectSeq(text, LAMBDA c : c \notin {"\n", " "}))} } : TRUE

\* TimestampConverter.convert_imu_data from index i on (lines 30-45): the
\* list as the call leaves it, and None or the exception
RECURSIVE ConvertFrom(_, _, _, _)
ConvertFrom(list, i, start, f) ==
    IF i = Len(list) THEN [list |-> list, out |-> None]
    ELSE LET t == SynthesizedTimestamp(start, i, f)
             current_dt == FromTimestamp(t)
         IN  IF current_dt.kind = "raise" THEN [list |-> list, out |-> current_dt]
             ELSE ConvertFrom([list EXCEPT ![i + 1] = SetTimeFields(@, current_dt, t)],
                              i + 1, start, f)

convert_imu_data(list, start, f) ==
    IF f = 0 THEN [list |-> list, out |-> Raise("ZeroDivisionError")]
    ELSE IF FromTimestamp(start).kind = "raise"
    THEN [list |-> list, out |-> FromTimestamp(start)]
    ELSE ConvertFrom(list, 0, start, f)

\* TimeAlignment.align_data from the query record i on (lines 91-98).
\* (Here and below an intermediate result is bound as the element of a
\* set, so that it is worked out once.)
RECURSIVE AlignFrom(_, _, _, _)
AlignFrom(gnss, imu, i, pairs) ==
    IF i > Len(imu) THEN List(pairs)
    ELSE CHOOSE out \in
             { IF found.kind = "raise" THEN found
               ELSE AlignFrom(gnss, imu, i + 1,
                              Append(pairs, <<gnss[found.idx + 1], imu[i],
                                              found.time_diff>>)) :
                 found \in {find_nearest_gnss(imu[i].timestamp,
                                              [k \in 1..Len(gnss) |-> gnss[k].timestamp])}
             } : TRUE

align_data(gnss, imu) == AlignFrom(gnss, imu, 1, <<>>)

\* Lines 110-136 / 170-193 of interpolate: one GNSSData per target, built
\* from the calendar fields of gnss_list[0] and the interpolated channels,
\* its timestamp set afterwards
BuildFrom(base_gnss, values, target_ts) ==
    LET built(j) ==
            GNSSData([year |-> base_gnss.year, month |-> base_gnss.month,
                      day |-> base_gnss.day, hour |-> base_gnss.hour,
                      minute |-> base_gnss.minute,
                      microsecond |-> base_gnss.microsecond,
                      longitude |-> values["longitude"][j],
                      latitude |-> values["latitude"][j],
                      altitude |-> values["altitude"][j],
                      velocity_x |-> values["velocity_x"][j],
                      velocity_y |-> values["velocity_y"][j],
                      velocity_z |-> values["velocity_z"][j],
                      valid |-> TRUE])
    IN  IF target_ts # <<>> /\ built(1).kind = "raise" THEN built(1)
        ELSE List([j \in 1..Len(target_ts) |->
                      [built(j) EXCEPT !.timestamp = target_ts[j]]])

\* Lines 99-108 / 160-168 of interpolate, for the records clean that
\* _sort_and_deduplicate returned
InterpolateClean(method, gnss, clean, target_ts) ==
    LET gnss_ts == [i \in 1..Len(clean) |-> clean[i].timestamp]
    IN  CHOOSE out \in
          { IF checked.kind = "raise" THEN checked
            ELSE IF method = "spline" /\ ~StrictlyIncreasing(gnss_ts)
            THEN RaiseMsg("ValueError", "x must be strictly increasing")
            ELSE BuildFrom(gnss[1],
                     [c \in Channels |->
                        [j \in 1..Len(target_ts) |->
                            IF method = "linear"
                            THEN interp1d_linear(gnss_ts,
                                     [i \in 1..Len(clean) |-> clean[i][c]],
                                     target_ts[j])
                            ELSE CubicSpline_natural(c, target_ts[j])]],
                     target_ts) :
              checked \in {validate_input(clean, target_ts)} } : TRUE

\* LinearInterpolator.interpolate / CubicSplineInterpolator.interpolate
\* (lines 84-136 / 145-193)
interpolate(method, gnss, target_ts) ==
    CHOOSE out \in
        { InterpolateClean(method, gnss, clean, target_ts) :
            clean \in {sort_and_deduplicate(gnss).dedup_gnss} } : TRUE

\* The number a sequence of base-8192 digits stands for
RECURSIVE LValue(_)
LValue(d) == IF d = <<>> THEN 0 ELSE Head(d) + 8192 * LValue(Tail(d))

\* int(a) of a float: the value cut off towards zero
FToInt(a) ==
    IF FIsNaN(a) THEN Raise("ValueError")
    ELSE IF a.kind = "inf" THEN Raise("OverflowError")
    ELSE LET m == IF a.e >= 0 THEN LShl(Mant(a), a.e) ELSE LShr(Mant(a), 0 - a.e)
         IN  [kind |-> "int", value |-> IF a.s = 1 THEN 0 - LValue(m) ELSE LValue(m)]

\* numpy.linspace(start, stop, num): num evenly spaced floats, the last one
\* stop itself; a negative num is a ValueError
linspace(start, stop, num) ==
    IF num < 0 THEN Raise("ValueError")
    ELSE CHOOSE out \in UNION {
           { List([i \in 1..num |->
                     IF num = 1 THEN start
                     ELSE IF i = num THEN stop
                     ELSE IF FIsZero(step)
                     THEN FAdd(FMul(FDiv(FromInt(i - 1), FromInt(num - 1)), delta), start)
                     ELSE FAdd(FMul(FromInt(i - 1), step), start)]) :
               step \in {IF num > 1 THEN NpDiv(delta, FromInt(num - 1)) ELSE NaN} } :
             delta \in {FSub(stop, start)} } : TRUE

-----------------------------------------------------------------------------
(* pipeline/data_pipeline.py: PipelineConfig and DataPipeline *)

\* A record's timestamp is the exact value Ts(..) where the converter sets
\* it and a binary64 value where the resamplers and the aligner read it.
\* The decoders return no record (GNSSData and IMUData are constructed
\* without `timestamp`), so gnss_data and imu_data hold no record in any
\* run and no timestamp passes from one stage to the next.

\* Composite windows of a Position file: "ok" and "later" carry a
\* well-formed Position frame (minute 0, minute 1) and a well-formed
\* Inertial frame, "sum" has a wrong checksum byte in both halves.
PipeWindow(kind) ==
    IF kind = "ok" THEN Composite([gnss |-> "ok", ins |-> "ok"])
    ELSE IF kind = "later"
    THEN EncodeGnss([ScanGnssFields EXCEPT !.minute = 1]) \o InsHalf("ok")
    ELSE Composite([gnss |-> "sum", ins |-> "sum"])

RECURSIVE PipeBytes(_)
PipeBytes(ks) == IF ks = <<>> THEN <<>> ELSE PipeWindow(Head(ks)) \o PipeBytes(Tail(ks))

MaxWindows == 2

\* The Position files: a missing file, text that is not hex, and hex text
\* of up to MaxWindows composite windows
PipeGnssFiles ==
    {[exists |-> FALSE, hex |-> FALSE, kinds |-> <<>>],
     [exists |-> TRUE, hex |-> FALSE, kinds |-> <<>>]}
    \cup { [exists |-> TRUE, hex |-> TRUE, kinds |-> ks] :
             ks \in UNION { [1..n -> {"ok", "later", "sum"}] : n \in 0..MaxWindows } }

\* f.read() of a Position file
GnssFileText(file) ==
    IF file.hex THEN HexText(PipeBytes(file.kinds)) \o <<"\n">>
    ELSE <<"z", "z", "\n">>

\* The Inertial-only files: a missing file, and files of up to MaxLines lines
PipeImuFiles ==
    {[exists |-> FALSE, kinds |-> <<>>]}
    \cup { [exists |-> TRUE, kinds |-> ks] :
             ks \in UNION { [1..n -> {"ok", "sum", "junk"}] : n \in 0..MaxLines } }

\* The lines of an Inertial-only file
ImuFileLines(file) == [i \in 1..Len(file.kinds) |-> InsLine(file.kinds[i])]

\* PipelineConfig objects: no result file, frequencies in whole Hz
PipelineConfigs ==
    [gnss_file : PipeGnssFiles, imu_file : PipeImuFiles, result_file : {None},
     imu_frequency : {0, 100}, interpolation_method : {"linear", "spline", "nearest"},
     interpolation_frequency : {0, 10}, generate_plots : BOOLEAN]

\* PipelineConfig.validate (lines 65-78)
validate(config) ==
    IF ~config.gnss_file.exists THEN Raise("FileNotFoundError")
    ELSE IF ~config.imu_file.exists THEN Raise("FileNotFoundError")
    ELSE IF config.interpolation_method \notin {"linear", "spline"}
    THEN Raise("ValueError")
    ELSE IF config.imu_frequency <= 0 \/ config.interpolation_frequency <= 0
    THEN Raise("ValueError")
    ELSE None

\* The attributes DataPipeline.__init__ sets (lines 108-112); aligned_pairs
\* and time_diffs are set nowhere in the class
NewPipeline ==
    [gnss_data |-> None, imu_data |-> None, interpolated_gnss |-> None,
     navigation_results |-> None]

\* `if x:` for an attribute that is None or a list
Truthy(x) == x # None /\ x.items # <<>>

\* A stage leaves the object as self, ends with out (None, a value, or the
\* exception that leaves it) and has made the calls `calls` into the
\* converter, the resamplers and the aligner.
StageEnd(self, out, calls) == [self |-> self, out |-> out, calls |-> calls]

\* DataPipeline._load_data (lines 159-177)
load_data(self, config) ==
    LET parsed == HexFrameParser_parse_file(GnssFileText(config.gnss_file))
    IN  IF parsed.kind = "raise" THEN StageEnd(self, parsed, <<>>)
        ELSE LET loaded == [self EXCEPT !.gnss_data = List(parsed.gnss_list)]
                 imu == INSFrameParser_parse_file(ImuFileLines(config.imu_file))
             IN  IF imu.kind = "raise" THEN StageEnd(loaded, imu, <<>>)
                 ELSE StageEnd([loaded EXCEPT !.imu_data = imu], None, <<>>)

\* DataPipeline._sync_timestamps (lines 179-191)
sync_timestamps(self, config) ==
    IF self.gnss_data.items = <<>> THEN StageEnd(self, Raise("IndexError"), <<>>)
    ELSE LET start_ts == self.gnss_data.items[1].timestamp
             r == convert_imu_data(self.imu_data.items, start_ts, config.imu_frequency)
         IN  StageEnd([self EXCEPT !.imu_data = List(r.list)], r.out,
                      <<[fn |-> "convert_imu_data", start_timestamp |-> start_ts]>>)

\* Lines 204-210 of _interpolate_gnss: target_timestamps
TargetTimestamps(valid_gnss, config) ==
    LET start_ts == valid_gnss[1].timestamp
        end_ts == valid_gnss[Len(valid_gnss)].timestamp
        duration == FSub(end_ts, start_ts)
    IN  CHOOSE out \in
          { IF num_points.kind = "raise" THEN num_points
            ELSE linspace(start_ts, end_ts, num_points.value) :
              num_points \in
                {FToInt(FMul(duration, FromInt(config.interpolation_frequency)))} } : TRUE

\* DataPipeline._interpolate_gnss (lines 193-229)
interpolate_gnss(self, config) ==
    LET valid_gnss == SelectSeq(self.gnss_data.items, LAMBDA g : ~FIsNaN(g.timestamp))
        call == <<[fn |-> "interpolate", gnss_list |-> valid_gnss]>>
    IN  IF Len(valid_gnss) < 2 THEN StageEnd(self, None, <<>>)
        ELSE CHOOSE end \in UNION {
               { IF targets.kind = "raise" THEN StageEnd(self, targets, <<>>)
                 ELSE IF r.kind = "raise" THEN StageEnd(self, r, call)
                 ELSE StageEnd([self EXCEPT !.interpolated_gnss = r], None, call) :
                   r \in {IF targets.kind = "raise" THEN targets
                          ELSE interpolate(config.interpolation_method, valid_gnss,
                                           targets.items)} } :
                 targets \in {TargetTimestamps(valid_gnss, config)} } : TRUE

\* gnss_to_use of _align_and_evaluate (line 236)
GnssToUse(self) ==
    IF Truthy(self.interpolated_gnss) THEN self.interpolated_gnss.items
    ELSE self.gnss_data.items

\* DataPipeline._align_and_evaluate (lines 231-252)
align_and_evaluate(self, config) ==
    LET sample_size == Min(1000, Len(self.imu_data.items))
        call == <<[fn |-> "align_data", gnss_list |-> GnssToUse(self)]>>
    IN  CHOOSE end \in
          { IF aligned.kind = "raise" THEN StageEnd(self, aligned, call)
            ELSE StageEnd(self, validate_alignment(aligned.items), call) :
              aligned \in {align_data(GnssToUse(self),
                                      SubSeq(self.imu_data.items, 1, sample_size))} } : TRUE

\* DataPipeline._generate_visualizations (lines 254-304): time_range reads
\* imu_data[0]; what the plot functions do with matplotlib and the file
\* system is the outcome `plots`
generate_visualizations(self, config, plots) ==
    IF self.imu_data.items = <<>> /\ plots = None
    THEN StageEnd(self, Raise("IndexError"), <<>>)
    ELSE StageEnd(self, plots, <<>>)

\* DataPipeline._save_results (lines 306-318): line 311 reads
\* self.aligned_pairs, an attribute that no method assigns
save_results(self, config) ==
    IF "aligned_pairs" \notin DOMAIN self
    THEN StageEnd(self, Raise("AttributeError"), <<>>)
    ELSE StageEnd(self, None, <<>>)

Stages == <<"load", "sync", "interpolate", "align", "plots", "save">>

\* The stage run() calls after the stage `stage` (lines 127-143)
StageAfter(stage, config) ==
    CASE stage = "load" -> "sync"
      [] stage = "sync" -> "interpolate"
      [] stage = "interpolate" -> "align"
      [] stage = "align" -> IF config.generate_plots THEN "plots" ELSE "save"
      [] stage = "plots" -> "save"
      [] stage = "save" -> "returned"

Stage(stage, self, config, plots) ==
    CASE stage = "load" -> load_data(self, config)
      [] stage = "sync" -> sync_timestamps(self, config)
      [] stage = "interpolate" -> interpolate_gnss(self, config)
      [] stage = "align" -> align_and_evaluate(self, config)
      [] stage = "plots" -> generate_visualizations(self, config, plots)
      [] stage = "save" -> save_results(self, config)

\* PipelineResults(...) of lines 150-157
PipelineResults(self, alignment_report) ==
    [kind |-> "PipelineResults", gnss_data |-> self.gnss_data,
     imu_data |-> self.imu_data, interpolated_gnss |-> self.interpolated_gnss,
     navigation_results |-> self.navigation_results,
     alignment_report |-> alignment_report]

PipeIdle ==
    /\ pipe_config = <<>> /\ pipe_self = NewPipeline /\ pipe_stages = <<>>
    /\ pipe_calls = <<>> /\ pipe_report = None /\ pipe_out = Pending
    /\ pipe_pc = "idle"

\* DataPipeline(config).run() about to be evaluated
PipeStart ==
    /\ pipe_config \in PipelineConfigs
    /\ pipe_self = NewPipeline
    /\ pipe_stages = <<>>
    /\ pipe_calls = <<>>
    /\ pipe_report = None
    /\ pipe_out = Pending
    /\ pipe_pc = "new"

\* DataPipeline.__init__ (lines 95-114)
DataPipelineInit ==
    /\ pipe_pc = "new"
    /\ LET checked == validate(pipe_config)
       IN  IF checked.kind = "raise"
           THEN pipe_pc' = "raised" /\ pipe_out' = checked
           ELSE pipe_pc' = "load" /\ UNCHANGED pipe_out
    /\ UNCHANGED <<pipe_config, pipe_self, pipe_stages, pipe_calls, pipe_report>>
    /\ UNCHANGED <<decode_vars, scan_vars, time_vars, result_vars, conv_vars, align_vars, interp_vars, insfile_vars, web_vars>>

\* The next stage of DataPipeline.run (lines 127-143), and after the save
\* stage its return statement (lines 150-157)
RunStage ==
    /\ pipe_pc \in {Stages[i] : i \in 1..Len(Stages)}
    /\ \E plots \in {None, Raise("Exception")} :
       \E r \in {Stage(pipe_pc, pipe_self, pipe_config, plots)} :
         LET report == IF pipe_pc = "align" THEN r.out ELSE pipe_report
         IN  /\ pipe_stages' = Append(pipe_stages, pipe_pc)
             /\ pipe_self' = r.self
             /\ pipe_calls' = pipe_calls \o r.calls
             /\ IF r.out.kind = "raise"
                THEN /\ pipe_pc' = "raised"
                     /\ pipe_out' = r.out
                     /\ UNCHANGED pipe_report
                ELSE /\ pipe_pc' = StageAfter(pipe_pc, pipe_config)
                     /\ pipe_report' = report
                     /\ pipe_out' = IF pipe_pc = "save"
                                    THEN PipelineResults(r.self, report)
                                    ELSE pipe_out
    /\ UNCHANGED pipe_config
    /\ UNCHANGED <<decode_vars, scan_vars, time_vars, result_vars, conv_vars, align_vars, interp_vars, insfile_vars, web_vars>>

NextPipe == DataPipelineInit \/ RunStage

-----------------------------------------------------------------------------
(* web/api.py: the job store and its handlers *)

\* DataPipeline.run from the stage `stage` on (data_pipeline.py, lines
\* 127-157): the PipelineResults returned, or the exception that leaves it
RECURSIVE RunFrom(_, _, _, _, _)
RunFrom(stage, self, config, report, plots) ==
    IF stage = "returned" THEN PipelineResults(self, report)
    ELSE CHOOSE out \in
           { IF r.out.kind = "raise" THEN r.out
             ELSE RunFrom(StageAfter(stage, config), r.self, config,
                          IF stage = "align" THEN r.out ELSE report, plots) :
               r \in {Stage(stage, self, config, plots)} } : TRUE

\* pipeline = DataPipeline(config); results = pipeline.run() (lines 220-221)
DataPipeline_run(config, plots) ==
    IF validate(config).kind = "raise" THEN validate(config)
    ELSE RunFrom("load", NewPipeline, config, None, plots)

\* Bound of the uploads, whose job ids are 1..MaxJobs in the order of upload
MaxJobs == 1

JobIds == 1..MaxJobs

\* The files a client uploads
UploadedFiles ==
    [gnss : {[hex |-> TRUE, kinds |-> <<>>], [hex |-> TRUE, kinds |-> <<"ok">>]},
     imu : {[kinds |-> <<>>], [kinds |-> <<"ok">>]}]

\* The form fields of POST /api/process/{job_id}
ProcessForms ==
    {[imu_frequency |-> 100, interpolation_method |-> "linear",
      interpolation_frequency |-> 10, generate_plots |-> TRUE],
     [imu_frequency |-> 100, interpolation_method |-> "nearest",
      interpolation_frequency |-> 10, generate_plots |-> FALSE]}

\* The record upload_files stores (lines 122-136); error, results are the
\* keys the task adds later ("" and None while absent); on_disk tells
\* whether the uploaded files are still in the job directory
NewJob(files, on_disk) ==
    [status |-> "uploaded", files |-> files, on_disk |-> on_disk,
     error |-> "", results |-> None]

\* What a handler answers: the HTTP status code and the job status it saw
\* ("none" when there is no such job)
Response(op, job_id, code, seen) ==
    [op |-> op, job_id |-> job_id, code |-> code, status |-> seen]

NoResponse == Response("none", 0, 0, "none")

\* The PipelineConfig run_pipeline_async builds (lines 208-217)
JobConfig(job, form) ==
    [gnss_file |-> [exists |-> job.on_disk, hex |-> job.files.gnss.hex,
                    kinds |-> job.files.gnss.kinds],
     imu_file |-> [exists |-> job.on_disk, kinds |-> job.files.imu.kinds],
     result_file |-> None,
     imu_frequency |-> form.imu_frequency,
     interpolation_method |-> form.interpolation_method,
     interpolation_frequency |-> form.interpolation_frequency,
     generate_plots |-> form.generate_plots]

\* The guard of get_results, get_plot and download_results (lines 265,
\* 285, 310): the job may be served
Servable(job) == job.status = "completed"

\* The guard of process_data (line 171): the job may be started
Startable_any(job) == TRUE

Startable(job) == job.status = "uploaded"

WebIdle ==
    /\ jobs = <<>> /\ tasks = <<>> /\ uploads = <<>> /\ clock = 0
    /\ web_response = NoResponse /\ web_pc = "idle"

\* The application after import: no job (line 65)
WebStart ==
    /\ jobs = <<>> /\ tasks = <<>> /\ uploads = <<>> /\ clock = 0
    /\ web_response = NoResponse /\ web_pc = "serving"

\* upload_files up to its first await (lines 98-107): the job id is taken
\* from the clock, the job directory made, gnss.dat opened
UploadFiles ==
    /\ web_pc = "serving"
    /\ clock < MaxJobs
    /\ clock' = clock + 1
    /\ \E files \in UploadedFiles :
         uploads' = (clock + 1 :> [at |-> "gnss", dir |-> TRUE, files |-> files]) @@ uploads
    /\ UNCHANGED <<jobs, tasks, web_response, web_pc>>
    /\ UNCHANGED <<decode_vars, scan_vars, time_vars, result_vars, conv_vars, align_vars, interp_vars, insfile_vars, pipe_vars>>

\* upload_files from its first await to the second (lines 107-111):
\* gnss.dat is written, imu.dat opened in the job directory; with the
\* directory gone open() raises and the request ends with a server error
UploadReadGnss ==
    /\ web_pc = "serving"
    /\ \E id \in DOMAIN uploads :
         /\ uploads[id].at = "gnss"
         /\ IF uploads[id].dir
            THEN /\ uploads' = [uploads EXCEPT ![id].at = "imu"]
                 /\ UNCHANGED web_response
            ELSE /\ uploads' = [i \in DOMAIN uploads \ {id} |-> uploads[i]]
                 /\ web_response' = Response("upload", id, 500, "none")
    /\ UNCHANGED <<jobs, tasks, clock, web_pc>>
    /\ UNCHANGED <<decode_vars, scan_vars, time_vars, result_vars, conv_vars, align_vars, interp_vars, insfile_vars, pipe_vars>>

\* upload_files after its last await (lines 111-144): imu.dat is written
\* and the job recorded
UploadFinish ==
    /\ web_pc = "serving"
    /\ \E id \in DOMAIN uploads :
         /\ uploads[id].at = "imu"
         /\ jobs' = (id :> NewJob(uploads[id].files, uploads[id].dir)) @@ jobs
         /\ uploads' = [i \in DOMAIN uploads \ {id} |-> uploads[i]]
         /\ web_response' = Response("upload", id, 200, "uploaded")
    /\ UNCHANGED <<tasks, clock, web_pc>>
    /\ UNCHANGED <<decode_vars, scan_vars, time_vars, result_vars, conv_vars, align_vars, interp_vars, insfile_vars, pipe_vars>>

\* process_data (lines 148-192); the handler has no await
ProcessData ==
    /\ web_pc = "serving"
    /\ \E job_id \in JobIds, form \in ProcessForms :
         IF job_id \notin DOMAIN jobs
         THEN /\ web_response' = Response("process", job_id, 404, "none")
              /\ UNCHANGED <<jobs, tasks>>
         ELSE IF ~Startable(jobs[job_id])
         THEN /\ web_response' = Response("process", job_id, 400, jobs[job_id].status)
              /\ UNCHANGED <<jobs, tasks>>
         ELSE /\ jobs' = [jobs EXCEPT ![job_id].status = "processing"]
              /\ tasks' = Append(tasks, [job_id |-> job_id, form |-> form,
                                         state |-> "created", exc |-> "",
                                         recorded |-> ""])
              /\ web_response' = Response("process", job_id, 200, "processing")
    /\ UNCHANGED <<uploads, clock, web_pc>>
    /\ UNCHANGED <<decode_vars, scan_vars, time_vars, result_vars, conv_vars, align_vars, interp_vars, insfile_vars, pipe_vars>>

\* run_pipeline_async (lines 195-246), run by the event loop as the task
\* process_data created; the coroutine has no await.  With the job gone
\* jobs[job_id] raises KeyError inside the try, and the handler of line
\* 242 reads the local `job` that was never bound: UnboundLocalError
\* leaves the coroutine.
RunPipelineAsync ==
    /\ web_pc = "serving"
    /\ \E k \in 1..Len(tasks), plots \in {None, Raise("Exception")} :
         /\ tasks[k].state = "created"
         /\ LET job_id == tasks[k].job_id
            IN  IF job_id \notin DOMAIN jobs
                THEN /\ tasks' = [tasks EXCEPT ![k].state = "crashed",
                                               ![k].exc = "UnboundLocalError"]
                     /\ UNCHANGED jobs
                ELSE \E run \in
                         {DataPipeline_run(JobConfig(jobs[job_id], tasks[k].form), plots)} :
                       IF run.kind = "raise"
                       THEN /\ jobs' = [jobs EXCEPT ![job_id].status = "failed",
                                                    ![job_id].error = run.exc]
                            /\ tasks' = [tasks EXCEPT ![k].state = "finished",
                                                      ![k].recorded = "failed"]
                       ELSE /\ jobs' = [jobs EXCEPT
                                          ![job_id].status = "completed",
                                          ![job_id].results =
                                             [gnss_count |-> Len(run.gnss_data.items),
                                              imu_count |-> Len(run.imu_data.items),
                                              alignment_report |-> run.alignment_report]]
                            /\ tasks' = [tasks EXCEPT ![k].state = "finished",
                                                      ![k].recorded = "completed"]
    /\ UNCHANGED <<uploads, clock, web_response, web_pc>>
    /\ UNCHANGED <<decode_vars, scan_vars, time_vars, result_vars, conv_vars, align_vars, interp_vars, insfile_vars, pipe_vars>>

\* What get_results, get_plot and download_results answer for job_id
Serve(op, job_id, found) ==
    IF job_id \notin DOMAIN jobs THEN Response(op, job_id, 404, "none")
    ELSE IF ~Servable(jobs[job_id]) THEN Response(op, job_id, 400, jobs[job_id].status)
    ELSE IF ~found THEN Response(op, job_id, 404, jobs[job_id].status)
    ELSE Response(op, job_id, 200, jobs[job_id].status)

\* get_results (lines 258-276)
GetResults ==
    /\ web_pc = "serving"
    /\ \E job_id \in JobIds : web_response' = Serve("results", job_id, TRUE)
    /\ UNCHANGED <<jobs, tasks, uploads, clock, web_pc>>
    /\ UNCHANGED <<decode_vars, scan_vars, time_vars, result_vars, conv_vars, align_vars, interp_vars, insfile_vars, pipe_vars>>

\* get_plot (lines 279-295); the plot file is there or not
GetPlot ==
    /\ web_pc = "serving"
    /\ \E job_id \in JobIds, found \in BOOLEAN :
         web_response' = Serve("plots", job_id, found)
    /\ UNCHANGED <<jobs, tasks, uploads, clock, web_pc>>
    /\ UNCHANGED <<decode_vars, scan_vars, time_vars, result_vars, conv_vars, align_vars, interp_vars, insfile_vars, pipe_vars>>

\* download_results (lines 298-342)
DownloadResults ==
    /\ web_pc = "serving"
    /\ \E job_id \in JobIds : web_response' = Serve("download", job_id, TRUE)
    /\ UNCHANGED <<jobs, tasks, uploads, clock, web_pc>>
    /\ UNCHANGED <<decode_vars, scan_vars, time_vars, result_vars, conv_vars, align_vars, interp_vars, insfile_vars, pipe_vars>>

\* cleanup_jobs (lines 378-420): the jobs of the given status, or without
\* one (status "") the completed and failed jobs, are deleted
CleanupJobs ==
    /\ web_pc = "serving"
    /\ \E status \in {"", "uploaded", "processing", "completed", "failed"} :
         LET to_delete == { id \in DOMAIN jobs :
                              IF status # "" THEN jobs[id].status = status
                              ELSE jobs[id].status \in {"completed", "failed"} }
         IN  /\ jobs' = [id \in DOMAIN jobs \ to_delete |-> jobs[id]]
             /\ web_response' = Response("cleanup", Cardinality(to_delete), 200, status)
    /\ UNCHANGED <<tasks, uploads, clock, web_pc>>
    /\ UNCHANGED <<decode_vars, scan_vars, time_vars, result_vars, conv_vars, align_vars, interp_vars, insfile_vars, pipe_vars>>

\* delete_all_jobs (lines 423-445): both directories are emptied, which
\* takes the directory of an upload in progress with them, and jobs cleared
DeleteAllJobs ==
    /\ web_pc = "serving"
    /\ jobs' = <<>>
    /\ uploads' = [id \in DOMAIN uploads |-> [uploads[id] EXCEPT !.dir = FALSE]]
    /\ web_response' = Response("clear-all", Cardinality(DOMAIN jobs), 200, "none")
    /\ UNCHANGED <<tasks, clock, web_pc>>
    /\ UNCHANGED <<decode_vars, scan_vars, time_vars, result_vars, conv_vars, align_vars, interp_vars, insfile_vars, pipe_vars>>

\* delete_job (lines 448-467)
DeleteJob ==
    /\ web_pc = "serving"
    /\ \E job_id \in JobIds :
         IF job_id \notin DOMAIN jobs
         THEN /\ web_response' = Response("delete", job_id, 404, "none")
              /\ UNCHANGED jobs
         ELSE /\ jobs' = [id \in DOMAIN jobs \ {job_id} |-> jobs[id]]
              /\ web_response' = Response("delete", job_id, 200, jobs[job_id].status)
    /\ UNCHANGED <<tasks, uploads, clock, web_pc>>
    /\ UNCHANGED <<decode_vars, scan_vars, time_vars, result_vars, conv_vars, align_vars, interp_vars, insfile_vars, pipe_vars>>

NextWeb ==
    \/ UploadFiles \/ UploadReadGnss \/ UploadFinish \/ ProcessData
    \/ RunPipelineAsync \/ GetResults \/ GetPlot \/ DownloadResults
    \/ CleanupJobs \/ DeleteAllJobs \/ DeleteJob

-----------------------------------------------------------------------------
(* Specifications *)

InitDecode == DecodeStart /\ ScanIdle /\ TimeIdle /\ ResultIdle /\ ConvIdle
    /\ AlignIdle /\ InterpIdle /\ InsfileIdle /\ PipeIdle /\ WebIdle

SpecDecode == InitDecode /\ [][NextDecode]_vars

InitScan == ScanStart /\ DecodeIdle /\ TimeIdle /\ ResultIdle /\ ConvIdle
    /\ AlignIdle /\ InterpIdle /\ InsfileIdle /\ PipeIdle /\ WebIdle

SpecScan == InitScan /\ [][NextScan]_vars

InitTime == TimeStart /\ DecodeIdle /\ ScanIdle /\ ResultIdle /\ ConvIdle
    /\ AlignIdle /\ InterpIdle /\ InsfileIdle /\ PipeIdle /\ WebIdle

SpecTime == InitTime /\ [][NextTime]_vars

InitResult == ResultStart /\ DecodeIdle /\ ScanIdle /\ TimeIdle /\ ConvIdle
    /\ AlignIdle /\ InterpIdle /\ InsfileIdle /\ PipeIdle /\ WebIdle

SpecResult == InitResult /\ [][NextResult]_vars

InitConv == ConvStart /\ DecodeIdle /\ ScanIdle /\ TimeIdle /\ ResultIdle
    /\ AlignIdle /\ InterpIdle /\ InsfileIdle /\ PipeIdle /\ WebIdle

SpecConv == InitConv /\ [][NextConv]_vars

InitAlign == AlignStart /\ DecodeIdle /\ ScanIdle /\ TimeIdle /\ ResultIdle
    /\ ConvIdle /\ InterpIdle /\ InsfileIdle /\ PipeIdle /\ WebIdle

SpecAlign == InitAlign /\ [][NextAlign]_vars

InitInterp == InterpStart /\ DecodeIdle /\ ScanIdle /\ TimeIdle /\ ResultIdle
    /\ ConvIdle /\ AlignIdle /\ InsfileIdle /\ PipeIdle /\ WebIdle

SpecInterp == InitInterp /\ [][NextInterp]_vars

InitInsfile == InsfileStart /\ DecodeIdle /\ ScanIdle /\ TimeIdle /\ ResultIdle /\ ConvIdle
    /\ AlignIdle /\ InterpIdle /\ PipeIdle /\ WebIdle

SpecInsfile == InitInsfile /\ [][NextInsfile]_vars

InitPipe == PipeStart /\ DecodeIdle /\ ScanIdle /\ TimeIdle /\ ResultIdle /\ ConvIdle
    /\ AlignIdle /\ InterpIdle /\ InsfileIdle /\ WebIdle

SpecPipe == InitPipe /\ [][NextPipe]_vars

InitWeb == WebStart /\ DecodeIdle /\ ScanIdle /\ TimeIdle /\ ResultIdle /\ ConvIdle
    /\ AlignIdle /\ InterpIdle /\ InsfileIdle /\ PipeIdle

SpecWeb == InitWeb /\ [][NextWeb]_vars

Init == InitDecode \/ InitScan \/ InitTime \/ InitResult \/ InitConv
    \/ InitAlign \/ InitInterp \/ InitInsfile \/ InitPipe \/ InitWeb

Next == NextDecode \/ NextScan \/ NextTime \/ NextResult \/ NextConv
    \/ NextAlign \/ NextInterp \/ NextInsfile \/ NextPipe \/ NextWeb

Spec == Init /\ [][Next]_vars

-----------------------------------------------------------------------------
(* Properties of the frame decoders (SpecDecode) *)

FrameSize == IF frame_kind = "gnss" THEN 46 ELSE 52

\* The last byte the trailing checksum byte covers (the span starts at
\* byte 3), as a Python index.
SpanLast == IF frame_kind = "gnss" THEN 44 ELSE 50

\* Marker, length byte and checksum byte of `data`, read off the layout.
MarkerOk ==
    IF frame_kind = "gnss" THEN data[1] = 153 /\ data[2] = 102
    ELSE data[1] = 85 /\ data[2] = 170

LengthOk == data[3] = FrameSize

ChecksumOk ==
    data[FrameSize] = SumBytes(SubSeq(data, 4, SpanLast + 1)) % 256

EncodedYearInRange == data[4] + 256 * data[5] \in 2000..2100

\* The well-formed window the decoder input was derived from.
BaseWindow == IF frame_kind = "gnss" THEN EncodeGnss(encoded) ELSE EncodeIns(encoded)

\* The decoder passes every check on the unaltered window and goes on to
\* build its record.
BaseAccepted ==
    IF frame_kind = "gnss" THEN parse_gnss_frame(BaseWindow) # None
    ELSE INSFrameParser_parse_ins_frame(BaseWindow) # None

\* C1: a 46-byte window with marker 99 66, length byte 2E, matching checksum
\* byte and a year in [2000, 2100] is decoded by parse_gnss_frame into a
\* Position record whose calendar, position and velocity fields equal the
\* encoded values (no 'no record', no exception).
C1_ValidWindowDecodes ==
    (/\ frame_kind = "gnss"
     /\ decoded # Pending
     /\ Len(data) = 46
     /\ MarkerOk /\ LengthOk /\ ChecksumOk /\ EncodedYearInRange)
    => /\ decoded.kind = "GNSSData"
       /\ \A k \in DOMAIN encoded : decoded[k] = encoded[k]

\* C2: replacing one byte of the checksum span of a window the decoder
\* accepts, the checksum byte left alone, makes the decoder return 'no
\* record'; and whatever the decoder does not reject has a checksum byte
\* equal to the sum of the span modulo 256.
C2_SingleByteChangeRejected ==
    /\ (/\ frame_kind \in {"gnss", "ins"}
        /\ decoded # Pending
        /\ edit.op = "replace"
        /\ edit.pos \in 3..SpanLast
        /\ BaseAccepted)
       => decoded = None
    /\ (/\ frame_kind \in {"gnss", "ins"}
        /\ decoded # Pending
        /\ decoded # None)
       => ChecksumOk

C2_Witness ==
    /\ frame_kind = "gnss"
    /\ edit.op = "replace"
    /\ edit.pos = 44
    /\ BaseAccepted
    /\ decoded = None

\* C3: a buffer shorter than the frame, or with a wrong marker, a wrong
\* length byte or a wrong checksum byte, is answered with 'no record' and no
\* exception by both decoders; parse_gnss_frame answers the same when all
\* of these are right and the year is outside [2000, 2100].
C3_RejectsWithoutRaising ==
    (/\ frame_kind \in {"gnss", "ins"}
     /\ decoded # Pending
     /\ \/ Len(data) < FrameSize
        \/ ~MarkerOk
        \/ ~LengthOk
        \/ ~ChecksumOk
        \/ (frame_kind = "gnss" /\ ~EncodedYearInRange))
    => decoded = None

C3_Witness ==
    /\ frame_kind = "gnss"
    /\ decoded = None
    /\ Len(data) = 46
    /\ MarkerOk /\ LengthOk /\ ChecksumOk
    /\ ~EncodedYearInRange

-----------------------------------------------------------------------------
(* Properties of the combined-stream scan (SpecScan) *)

\* The 46 bytes of binary_data at cursor c form a Position frame with the
\* right marker, length byte, checksum byte and a year in [2000, 2100].
PositionFrameAt(c) ==
    /\ c + 46 <= Len(binary_data)
    /\ binary_data[c + 1] = 153 /\ binary_data[c + 2] = 102
    /\ binary_data[c + 3] = 46
    /\ binary_data[c + 46] = SumBytes(SubSeq(binary_data, c + 4, c + 45)) % 256
    /\ binary_data[c + 4] + 256 * binary_data[c + 5] \in 2000..2100

\* The 52 bytes of binary_data at cursor c form an Inertial frame.
InertialFrameAt(c) ==
    /\ c + 52 <= Len(binary_data)
    /\ binary_data[c + 1] = 85 /\ binary_data[c + 2] = 170
    /\ binary_data[c + 3] = 52
    /\ binary_data[c + 52] = SumBytes(SubSeq(binary_data, c + 4, c + 51)) % 256

CompositeFrameAt(c) == PositionFrameAt(c) /\ InertialFrameAt(c + 46)

\* The cursor positions tried so far at which a composite frame sits.
PairedCursors == { i \in 1..Len(cursors) : CompositeFrameAt(cursors[i]) }

\* C4: the scan emits a Position and an Inertial record exactly at the
\* cursor positions where both halves of the 98-byte window decode, and
\* nothing elsewhere; so for every buffer it hands back two lists of equal
\* length whose i-th elements come from the same window.
C4_EmitsOnlyPairs ==
    /\ scan_pc # "raised"
    /\ Len(gnss_list) = Len(imu_list)
    /\ Len(gnss_list) = Cardinality(PairedCursors)

\* C5: with garbage_len garbage bytes before a valid composite frame, the
\* scan is at the frame's first byte after at most garbage_len steps, no
\* jump passes over it, and the frame's two records are emitted.
C5_ResyncRecovers ==
    (Len(layout) >= 1 /\ layout[1] = [gnss |-> "ok", ins |-> "ok"])
    => /\ scan_pc # "raised"
       /\ (scan_pc = "loop" /\ offset <= garbage_len) => Len(cursors) <= garbage_len
       /\ (offset > garbage_len \/ scan_pc = "returned")
          => /\ \E i \in 1..(garbage_len + 1) : cursors[i] = garbage_len
             /\ \E i \in 1..Len(gnss_list) :
                  \A k \in DOMAIN ScanGnssFields : gnss_list[i][k] = ScanGnssFields[k]
             /\ \E i \in 1..Len(imu_list) :
                  \A k \in DOMAIN ScanInsFields : imu_list[i][k] = ScanInsFields[k]

\* C6: the scan starts at cursor 0, moves the cursor by exactly 98 or
\* exactly 1 per step, never decodes a window that runs past the end of the
\* buffer, and stops exactly at the first cursor position with fewer than
\* 98 bytes left.
C6_ScanStopsAtShortTail ==
    /\ Len(cursors) >= 1 => cursors[1] = 0
    /\ \A i \in 1..Len(cursors) : cursors[i] + 98 <= Len(binary_data)
    /\ \A i \in 1..(Len(cursors) - 1) : cursors[i + 1] - cursors[i] \in {1, 98}
    /\ scan_pc = "loop" /\ cursors # <<>>
       => offset - cursors[Len(cursors)] \in {1, 98}
    /\ scan_pc \in {"returned", "raised"}
       => scan_pc = "returned" /\ Len(binary_data) - offset < 98

-----------------------------------------------------------------------------
(* Properties of the calendar-to-timestamp conversion (SpecTime) *)

\* The calendar fields of r name a day of the Gregorian calendar and a
\* time of day.
GregorianValid(r) ==
    /\ r.year \in 1..9999
    /\ r.month \in 1..12
    /\ r.day >= 1
    /\ r.day <= (IF r.month = 2
                 THEN (IF r.year % 4 = 0 /\ (r.year % 100 # 0 \/ r.year % 400 = 0)
                       THEN 29 ELSE 28)
                 ELSE IF r.month \in {4, 6, 9, 11} THEN 30 ELSE 31)
    /\ r.hour \in 0..23
    /\ r.minute \in 0..59

CalendarOf(r) == <<r.year, r.month, r.day, r.hour, r.minute, r.microsecond>>

\* C7: the calendar-to-timestamp conversion never raises: it yields a
\* finite timestamp for a valid Gregorian date (2024-02-29 included) and
\* the NaN sentinel otherwise (month 13), and the calendar fields of the
\* record stay as they were.
C7_ConversionNeverRaises ==
    conv_out # Pending
    => /\ conv_out.out.kind # "raise"
       /\ conv_out.call \in {"to_timestamp", "to_unix_timestamp"}
          => IF GregorianValid(rec0) THEN conv_out.out.kind = "float"
             ELSE conv_out.out = NaN
       /\ CalendarOf(rec) = CalendarOf(rec0)

-----------------------------------------------------------------------------
(* Properties of the FusedResult decoder and scan (SpecResult) *)

\* C8: every record the decoder returns carries, when it is returned, the
\* Unix timestamp derived from its own calendar fields, or the NaN sentinel;
\* never a placeholder such as 0.0.
C8_TimestampDerivedAtDecode ==
    \A i \in 1..Len(results) :
        \/ results[i].timestamp = NaN
        \/ /\ GregorianValid(results[i])
           /\ results[i].timestamp =
                Ts(DaysFromCivil(results[i].year, results[i].month, results[i].day) * 1440
                   + results[i].hour * 60 + results[i].minute,
                   results[i].microsecond)

\* C9: a 160-byte frame whose year is outside [2000, 2100] still yields its
\* record, so the scan of an n-byte buffer returns floor(n / 160) records,
\* the i-th from the i-th frame.
C9_OutOfRangeYearKept ==
    res_pc = "returned"
    => /\ Len(results) = Len(res_data) \div 160
       /\ \A i \in 1..Len(results) :
            /\ results[i].year = res_layout[i].year
            /\ results[i].month = res_layout[i].month
            /\ results[i].nav_status = res_layout[i].nav_status

-----------------------------------------------------------------------------
(* Properties of the IMU timestamp synthesis (SpecConv) *)

\* The number of records convert_imu_data has relabelled so far
ConvDone == IF conv_pc = "returned" THEN Len(conv_list) ELSE conv_i

SensorFields == {"gyro_x", "gyro_y", "gyro_z", "accel_x", "accel_y", "accel_z"}

C11_CalendarAgreesWithTimestamp ==
    \A n \in 1..ConvDone : to_timestamp(conv_list[n]) = conv_list[n].timestamp

-----------------------------------------------------------------------------
(* Properties of TimeAlignment (SpecAlign) *)

\* The 0-based index of the reference record of the k-th emitted triple, the
\* timestamp of its query record and its time difference
PairIndex(k) == aligned_pairs[k][1].longitude - 1

PairQuery(k) == aligned_pairs[k][2].timestamp

PairDiff(k) == aligned_pairs[k][3]

\* |R[j] - q| for the 0-based index j of the reference list
RefDiff(j, q) == FAbs(FSub(align_gnss[j + 1].timestamp, q))

\* C12: for a non-empty ascending reference list R and a query timestamp q,
\* find_nearest_gnss returns an index i with 0 <= i < len(R) and the
\* difference d = |R[i] - q|, and d <= |R[j] - q| for every index j; a q
\* below R[0] gives index 0 and a q above R[n-1] gives index n-1; with
\* R = [0, 1, 2, 3], q = 1.6 gives index 2 with d = |2.0 - 1.6| and q = -5
\* gives index 0 with d = 5.
C12_NearestIsMinimiser ==
    align_gnss # <<>> =>
        \A k \in 1..Len(aligned_pairs) :
            LET q == PairQuery(k)
                i == PairIndex(k)
                d == PairDiff(k)
                n == Len(align_gnss)
            IN  /\ 0 <= i /\ i < n
                /\ aligned_pairs[k][1] = align_gnss[i + 1]
                /\ d = RefDiff(i, q)
                /\ \A j \in 0..(n - 1) : FLessEq(d, RefDiff(j, q))
                /\ FLess(q, align_gnss[1].timestamp) => i = 0
                /\ FLess(align_gnss[n].timestamp, q) => i = n - 1
                /\ ([j \in 1..n |-> align_gnss[j].timestamp] = RefValues
                        /\ q = Dbl(0, 107374182, 26843546, -52))
                   => i = 2 /\ d = FSub(FromInt(2), q)
                /\ ([j \in 1..n |-> align_gnss[j].timestamp] = RefValues
                        /\ q = FNeg(FromInt(5)))
                   => i = 0 /\ d = FromInt(5)

C12_Witness ==
    /\ [j \in 1..Len(align_gnss) |-> align_gnss[j].timestamp] = RefValues
    /\ Len(aligned_pairs) = 3
    /\ PairQuery(1) = FNeg(FromInt(5)) /\ PairIndex(1) = 0
    /\ PairDiff(1) = FromInt(5)
    /\ PairQuery(2) = FromInt(1) /\ PairIndex(2) = 1 /\ PairDiff(2) = FZero
    /\ PairQuery(3) = Dbl(0, 107374182, 26843546, -52) /\ PairIndex(3) = 2
    /\ PairDiff(3) = Dbl(0, 107374182, 26843544, -54)

\* C13: when a query timestamp q is exactly equidistant from the adjacent
\* reference timestamps R[idx-1] and R[idx] (idx the insertion point of q,
\* |R[idx-1] - q| = |R[idx] - q|), find_nearest_gnss returns the lower
\* index idx-1.
C13_TieGoesToLowerIndex ==
    \A k \in 1..Len(aligned_pairs) :
        LET q   == PairQuery(k)
            n   == Len(align_gnss)
            idx == bisect_left([j \in 1..n |-> align_gnss[j].timestamp], q, 0, n)
        IN  (0 < idx /\ idx < n /\ RefDiff(idx - 1, q) = RefDiff(idx, q))
            => PairIndex(k) = idx - 1

\* The 0-based positions of the emitted triples whose |dt| is strictly below
\* a threshold
PairsBelow(threshold) ==
    {k \in 1..Len(aligned_pairs) : FLess(PairDiff(k), threshold)}

\* C14: align_data emits exactly one triple per query record, in query
\* order, and validate_alignment over those m triples reports
\* total_pairs = m, pairs_within_5ms = the number of triples with |dt|
\* strictly less than 0.005 and pairs_within_10ms = the number with |dt|
\* strictly less than 0.010 (a |dt| equal to a threshold is not counted),
\* so that pairs_within_5ms <= pairs_within_10ms <= total_pairs and
\* min_time_diff <= avg_time_diff <= max_time_diff always hold.
C14_OneTriplePerQueryAndReport ==
    /\ align_pc # "raised"
    /\ align_pc \in {"aligned", "validated"}
       => /\ Len(aligned_pairs) = Len(align_imu)
          /\ \A k \in 1..Len(aligned_pairs) : aligned_pairs[k][2] = align_imu[k]
    /\ align_pc = "validated"
       => /\ align_report.kind = "dict"
          /\ align_report.total_pairs = Len(align_imu)
          /\ align_report.pairs_within_5ms = Cardinality(PairsBelow(Threshold5ms))
          /\ align_report.pairs_within_10ms = Cardinality(PairsBelow(Threshold10ms))
          /\ align_report.pairs_within_5ms <= align_report.pairs_within_10ms
          /\ align_report.pairs_within_10ms <= align_report.total_pairs
          /\ FLessEq(align_report.min_time_diff, align_report.avg_time_diff)
          /\ FLessEq(align_report.avg_time_diff, align_report.max_time_diff)

-----------------------------------------------------------------------------
(* Properties of the interpolators (SpecInterp) *)

\* The records of the input list whose timestamp is not NaN, in input order
FiniteRecords == SelectSeq(interp_gnss, LAMBDA g : ~FIsNaN(g.timestamp))

\* Two of the finite timestamps of the input differ by more than the
\* tolerance
TwoDistinctFinite ==
    \E i, j \in 1..Len(FiniteRecords) :
        FLess(Tolerance,
              FAbs(FSub(FiniteRecords[i].timestamp, FiniteRecords[j].timestamp)))

\* C15: records whose timestamp is NaN are discarded instead of failing:
\* given an input list, in any order, that contains NaN-timestamp records
\* together with at least two records with distinct finite timestamps, both
\* interpolators do not raise, work on the finite-timestamp records only and
\* return one interpolated record per target.
C15_NaNRecordsAreDiscarded ==
    (interp_pc # "dedup" /\ Len(FiniteRecords) < Len(interp_gnss)
        /\ TwoDistinctFinite)
    => /\ interp_pc # "raised"
       /\ clean_gnss = sort_and_deduplicate(FiniteRecords).dedup_gnss
       /\ interp_pc = "returned"
          => /\ interp_out.kind = "list"
             /\ Len(interp_out.items) = Len(target_timestamps)

\* C16: for every input list of records with finite timestamps, in any
\* order, the sequence produced by _sort_and_deduplicate has strictly
\* increasing timestamps and no two of its records have timestamps that
\* differ by less than 1e-9.
C16_CleanIsStrictlyIncreasing ==
    (interp_pc # "dedup" /\ Len(FiniteRecords) = Len(interp_gnss))
    => /\ \A i \in 1..(Len(clean_gnss) - 1) :
            FLess(clean_gnss[i].timestamp, clean_gnss[i + 1].timestamp)
       /\ \A i, j \in 1..Len(clean_gnss) :
            i # j => ~FLess(FAbs(FSub(clean_gnss[i].timestamp,
                                      clean_gnss[j].timestamp)),
                            Tolerance)

C16_Witness ==
    /\ interp_pc = "validate"
    /\ Len(interp_gnss) = 3
    /\ interp_gnss[1].timestamp = Dbl(0, 83886080, 281475, -49)
    /\ interp_gnss[2].timestamp = FromInt(2)
    /\ interp_gnss[3].timestamp = FromInt(10)
    /\ Len(clean_gnss) = 2
    /\ clean_gnss[1] = interp_gnss[2]
    /\ clean_gnss[2] = interp_gnss[3]

\* The input list in sorted order, whether its i-th record was kept by the
\* deduplication, and the last record kept before its i-th record
SortedInput == sorted(interp_gnss)

Kept(i) == \E j \in 1..Len(clean_gnss) : clean_gnss[j] = SortedInput[i]

PrevKept(i) ==
    SortedInput[CHOOSE m \in 1..(i - 1) :
                    Kept(m) /\ \A m2 \in (m + 1)..(i - 1) : ~Kept(m2)]

\* C17: scanning in sorted order, deduplication drops a record exactly when
\* its timestamp differs from the timestamp of the previously kept record by
\* less than 1e-9 and keeps it otherwise, a difference of exactly 1e-9
\* included; among records within the tolerance the earliest-sorted is kept
\* (for equal timestamps the one that came first in the input); the number
\* reported as removed is the number dropped; timestamps 10.0 and
\* 10.0000000005 leave one record, the first.
C17_DropsExactlyBelowTolerance ==
    (interp_pc # "dedup" /\ Len(FiniteRecords) = Len(interp_gnss))
    => /\ clean_gnss = SelectSeq(SortedInput,
                                 LAMBDA g : \E j \in 1..Len(clean_gnss) : clean_gnss[j] = g)
       /\ Len(SortedInput) >= 1 => Kept(1)
       /\ \A i \in 2..Len(SortedInput) :
            Kept(i) <=> ~FLess(FAbs(FSub(SortedInput[i].timestamp,
                                         PrevKept(i).timestamp)),
                               Tolerance)
       /\ \A i, j \in 1..Len(interp_gnss) :
            (i < j /\ interp_gnss[i].timestamp = interp_gnss[j].timestamp)
            => \A m \in 1..Len(clean_gnss) : clean_gnss[m] # interp_gnss[j]
       /\ Len(clean_gnss) < Len(interp_gnss)
          => \E m \in 1..Len(interp_log) :
                interp_log[m] = [level |-> "info",
                                 removed |-> Len(interp_gnss) - Len(clean_gnss)]
       /\ [i \in 1..Len(interp_gnss) |-> interp_gnss[i].timestamp]
              = <<FromInt(10), Dbl(0, 83886080, 281475, -49)>>
          => clean_gnss = <<interp_gnss[1]>>

\* The records that remain after NaN removal, sorting and deduplication
Remaining == sort_and_deduplicate(FiniteRecords).dedup_gnss

\* C18: both interpolators raise the ValueError of insufficient data
\* exactly when fewer than 2 records remain after NaN removal, sorting and
\* deduplication (an empty input and an input whose records share one
\* timestamp within 1e-9 included) and return no output in that case; with
\* 2 or more remaining records they do not raise it.
C18_ValueErrorIffFewerThanTwoRemain ==
    interp_pc \in {"raised", "fields", "build", "returned"}
    => /\ Len(Remaining) < 2
          <=> (interp_out.kind = "raise" /\ interp_out.exc = "ValueError")
       /\ Len(Remaining) < 2 => interp_pc = "raised" /\ interp_results = Pending

\* The call got past preprocessing and validation and has ended
EndedAfterValidation ==
    interp_pc \in {"raised", "returned"} /\ interp_results # Pending

\* C19: for both interpolators, whenever a target timestamp equals the
\* timestamp of a source record retained by preprocessing, every channel
\* (longitude, latitude, altitude, velocity_x, velocity_y, velocity_z) of
\* the record produced for that target equals the channel of that source
\* record.
C19_ReproducesSourceAtSourceTimestamps ==
    EndedAfterValidation
    => \A j \in 1..Len(target_timestamps) : \A i \in 1..Len(clean_gnss) :
         target_timestamps[j] = clean_gnss[i].timestamp
         => /\ interp_out.kind = "list"
            /\ \A c \in Channels : interp_out.items[j][c] = clean_gnss[i][c]

\* A target lies outside [min, max] of the deduplicated source timestamps
CleanTimestamps == [i \in 1..Len(clean_gnss) |-> clean_gnss[i].timestamp]

Below(t) == FLess(t, FMin(CleanTimestamps))

Above(t) == FLess(FMax(CleanTimestamps), t)

\* The value at t of the straight line through the samples i and i + 1, in
\* ascending order of timestamp, of channel c
LineThrough(c, i, t) ==
    LET src == sorted(clean_gnss)
    IN  NpAdd(NpMul(NpDiv(FSub(src[i + 1][c], src[i][c]),
                          FSub(src[i + 1].timestamp, src[i].timestamp)),
                    FSub(t, src[i].timestamp)),
              src[i][c])

\* C20: LinearInterpolator.interpolate returns, for a target outside
\* [min, max] of the deduplicated source timestamps, per channel the value
\* at the target of the straight line through the two samples of the
\* nearest boundary segment, which is finite; the extrapolation warning is
\* logged exactly when at least one target lies outside [min, max], and the
\* call is not aborted; the samples (t=0, v=0), (t=2, v=10) give v=5 at t=1
\* and v=15 at t=3 with the warning.
C20_LinearExtrapolation ==
    (EndedAfterValidation /\ interp_method = "linear")
    => /\ (\E m \in 1..Len(interp_log) :
              interp_log[m] = [level |-> "warning", msg |-> "extrapolate"])
          <=> \E j \in 1..Len(target_timestamps) :
                 Below(target_timestamps[j]) \/ Above(target_timestamps[j])
       /\ interp_pc = "returned" /\ interp_out.kind = "list"
       /\ \A j \in 1..Len(target_timestamps) : \A c \in Channels :
            LET t == target_timestamps[j]
                v == interp_out.items[j][c]
            IN  /\ v.kind = "float64"
                /\ Below(t) => v = LineThrough(c, 1, t)
                /\ Above(t) => v = LineThrough(c, Len(clean_gnss) - 1, t)
                /\ ([i \in 1..Len(clean_gnss) |->
                        <<clean_gnss[i].timestamp, clean_gnss[i].longitude>>]
                        = <<<<FZero, FZero>>, <<FromInt(2), FromInt(10)>>>>
                    /\ c = "longitude")
                   => /\ t = FromInt(1) => v = FromInt(5)
                      /\ t = FromInt(3) => v = FromInt(15)

\* The calendar fields of a Position record
PositionCalendarFields == {"year", "month", "day", "hour", "minute", "microsecond"}

\* C21: a call of either interpolator whose input passes preprocessing and
\* validation returns exactly one new Position record per target timestamp,
\* in target order, whose timestamp is the target value and whose calendar
\* fields (year, month, day, hour, minute, microsecond) are those of the
\* first record of the input list as the caller passed it, whichever record
\* is earliest in time.
C21_OneRecordPerTargetWithBaseCalendar ==
    EndedAfterValidation
    => /\ interp_pc = "returned"
       /\ interp_out.kind = "list"
       /\ Len(interp_out.items) = Len(target_timestamps)
       /\ \A j \in 1..Len(target_timestamps) :
            /\ interp_out.items[j].timestamp = target_timestamps[j]
            /\ \A f \in PositionCalendarFields :
                 interp_out.items[j][f] = interp_gnss[1][f]

\* C22: align_data and validate_alignment return a result without an
\* exception for every pair of sequences, an empty reference sequence and
\* an empty query sequence (zero aligned pairs) included.
C22_AlignerNeverRaises ==
    /\ align_pc # "raised"
    /\ align_report.kind # "raise"
    /\ align_pc = "validated" => align_report.kind = "dict"

\* C24: convert_imu_data changes only the timestamp and calendar fields of
\* the records: the six sensor fields of every record, the length of the
\* sequence and the order of its records stay as they were, whether the
\* call returns or raises, and no Position or FusedResult record is touched.
C24_OnlyTimeFieldsChange ==
    /\ Len(conv_list) = Len(imu_input)
    /\ \A n \in 1..Len(conv_list) :
         /\ conv_list[n].kind = "IMUData"
         /\ \A k \in SensorFields : conv_list[n][k] = imu_input[n][k]
         /\ conv_list[n].gyro_x = ImuRecord(n).gyro_x
    /\ gnss_list = <<>> /\ results = <<>> /\ rec = <<>>

C24_Witness ==
    /\ conv_pc = "returned"
    /\ Len(conv_list) = 3
    /\ \A n \in 1..3 :
         /\ conv_list[n].timestamp # imu_input[n].timestamp
         /\ conv_list[n].year # imu_input[n].year
         /\ \A k \in SensorFields : conv_list[n][k] = imu_input[n][k]

\* The calendar fields of an Inertial record
InertialCalendarFields == {"year", "month", "day", "hour", "minute", "microsecond"}

\* C25: convert_imu_data is all-or-nothing: if the call raises (a NaN
\* reference epoch, frequency 0, or a synthesized timestamp of a later index
\* that has no calendar date), no record of the input sequence has had its
\* timestamp or calendar fields modified; and no record is ever left with
\* new calendar fields but its old timestamp.
C25_AllOrNothing ==
    /\ conv_pc = "raised" => conv_list = imu_input
    /\ \A n \in 1..Len(conv_list) :
         conv_list[n].timestamp = imu_input[n].timestamp
         => \A k \in InertialCalendarFields : conv_list[n][k] = imu_input[n][k]

\* C27: preprocessing is idempotent and does not modify its input: for
\* every record list L with finite timestamps _sort_and_deduplicate applied
\* to _sort_and_deduplicate(L) returns the same sequence of records and
\* drops nothing (no removal is logged), and the caller's list keeps its
\* order and contents.
C27_DedupIsIdempotent ==
    (interp_pc # "dedup" /\ Len(FiniteRecords) = Len(interp_gnss))
    => /\ sort_and_deduplicate(clean_gnss) = [dedup_gnss |-> clean_gnss, log |-> <<>>]
       /\ \A i \in 1..Len(interp_gnss) :
            \E k \in 1..Len(InterpTimestamps) : interp_gnss[i] = InterpRecord(i, k)

C27_Witness ==
    /\ interp_pc = "validate"
    /\ Len(interp_gnss) = 3
    /\ interp_gnss[1].timestamp = FromInt(2)
    /\ interp_gnss[2].timestamp = Dbl(0, 86469112, 56741452, -83)
    /\ interp_gnss[3].timestamp = FZero
    /\ clean_gnss = <<interp_gnss[3], interp_gnss[1]>>
    /\ sort_and_deduplicate(clean_gnss).dedup_gnss = clean_gnss

-----------------------------------------------------------------------------
(* Properties of the Inertial-only file scan (SpecInsfile) *)

\* The kinds of the well-formed lines of the file, in file order
WellFormedLines == SelectSeq(ins_kinds, LAMBDA k : k \in WellFormedKinds)

\* C23: INSFrameParser.parse_file decodes each line on its own: a line
\* that is not valid hex, or whose frame has a bad marker, length or
\* checksum, is passed over and the scan goes on with the next line, so
\* the call never ends at a line and the list it returns holds exactly the
\* records of the well-formed lines, in file order.
C23_EachLineDecodedOnItsOwn ==
    /\ ins_pc # "raised"
    /\ ins_pc = "returned" =>
         /\ ins_out.kind = "list"
         /\ Len(ins_out.items) = Len(WellFormedLines)
         /\ \A i \in 1..Len(WellFormedLines) :
               /\ ins_out.items[i].kind = "IMUData"
               /\ \A f \in DOMAIN ScanInsFields :
                     ins_out.items[i][f] = InsFieldsOf(WellFormedLines[i])[f]

-----------------------------------------------------------------------------
(* Properties of the pipeline (SpecPipe) *)

\* The stages of a run that goes through all of run(), in its order
FullRun == IF pipe_config.generate_plots THEN Stages
           ELSE SelectSeq(Stages, LAMBDA st : st # "plots")

\* The run has ended, by its return statement or by an exception
RunEnded == pipe_pc \in {"returned", "raised"}

\* The Position file holds two well-formed frames of different times, the
\* Inertial-only file a well-formed line, plots are off and the
\* configuration passes validate
TwoPositionsOneInertial ==
    /\ pipe_config.gnss_file.exists /\ pipe_config.gnss_file.hex
    /\ pipe_config.gnss_file.kinds \in {<<"ok", "later">>, <<"later", "ok">>}
    /\ pipe_config.imu_file.exists
    /\ \E i \in 1..Len(pipe_config.imu_file.kinds) : pipe_config.imu_file.kinds[i] = "ok"
    /\ ~pipe_config.generate_plots
    /\ validate(pipe_config) = None

\* C28: DataPipeline.run calls its stages in the fixed order load, sync,
\* interpolation, alignment, optional plots, save; and a run on files that
\* hold two Position records of different finite times and an Inertial
\* record, plots off, gets to the end of the save stage and returns a
\* PipelineResults whose alignment_report is the report of the alignment
\* stage.
C28_RunReachesTheEndOfSave ==
    /\ Len(pipe_stages) <= Len(FullRun)
    /\ pipe_stages = SubSeq(FullRun, 1, Len(pipe_stages))
    /\ (RunEnded /\ TwoPositionsOneInertial) =>
          /\ pipe_pc = "returned"
          /\ pipe_stages = FullRun
          /\ pipe_report.kind = "dict"
          /\ pipe_out.kind = "PipelineResults"
          /\ pipe_out.alignment_report = pipe_report

\* No run gets as far as a call of convert_imu_data, of an interpolator or
\* of align_data: it ends in the constructor, in _load_data or at
\* gnss_data[0] of _sync_timestamps (this is why the statement C26 makes
\* about the arguments of these calls has no case to be checked on).
RunEndsBeforeAnyCall ==
    /\ pipe_calls = <<>>
    /\ pipe_pc # "returned"
    /\ \A i \in 1..Len(pipe_stages) : pipe_stages[i] \in {"load", "sync"}
    /\ pipe_self.gnss_data \in {None, List(<<>>)}
    /\ pipe_pc = "raised" =>
          pipe_out.exc \in {"FileNotFoundError", "ValueError", "TypeError", "IndexError"}

-----------------------------------------------------------------------------
(* Claims on the web job store *)

\* The moves of a job's status
StatusMoves ==
    {<<"uploaded", "processing">>, <<"processing", "completed">>,
     <<"processing", "failed">>}

\* The tasks created for job_id
TasksOf(job_id) == { k \in 1..Len(tasks) : tasks[k].job_id = job_id }

(* C29: a job's status only moves uploaded -> processing -> completed or
   failed; a process request is accepted only while the status is
   'uploaded' and has set it to 'processing' when it returns, so that under
   every interleaving of the handlers and the tasks at most one task is
   created per job id; and results, plots and download are answered with
   success only for a job whose status is 'completed'. *)
C29_JobStatusMovesForward ==
    /\ [](\A job_id \in JobIds : Cardinality(TasksOf(job_id)) <= 1)
    /\ []((web_response.op \in {"results", "plots", "download"}
            /\ web_response.code = 200) => web_response.status = "completed")
    /\ [][\A job_id \in DOMAIN jobs \cap DOMAIN jobs' :
            jobs'[job_id].status # jobs[job_id].status
              => <<jobs[job_id].status, jobs'[job_id].status>> \in StatusMoves]_vars
    /\ [][tasks' # tasks /\ Len(tasks') > Len(tasks)
            => LET job_id == tasks'[Len(tasks')].job_id
               IN  /\ job_id \in DOMAIN jobs
                   /\ jobs[job_id].status = "uploaded"
                   /\ jobs'[job_id].status = "processing"]_vars

\* A second process request for a job arrived while the task of the first
\* had not started, and was refused
C29_Witness ==
    /\ web_response.op = "process" /\ web_response.code = 400
    /\ web_response.status = "processing"
    /\ \E k \in TasksOf(web_response.job_id) : tasks[k].state = "created"

(* C30: the task run_pipeline_async never ends with an unhandled exception:
   under every interleaving with delete_job, cleanup_jobs and
   delete_all_jobs, also with the job deleted between the return of
   process_data and the start of the task, a task that has run has recorded
   'completed' or 'failed' on its job record, a failure together with its
   error message. *)
C30_TaskRecordsItsOutcome ==
    \A k \in 1..Len(tasks) :
        tasks[k].state # "created"
          => /\ tasks[k].state = "finished" /\ tasks[k].exc = ""
             /\ tasks[k].recorded \in {"completed", "failed"}
             /\ (tasks[k].job_id \in DOMAIN jobs /\ tasks[k].recorded = "failed"
                   => /\ jobs[tasks[k].job_id].status = "failed"
                      /\ jobs[tasks[k].job_id].error # "")

====
